---- MODULE Spec2Model ----
(***************************************************************************)
(* treeop: per-directory sidecar index (.dirdb), incremental indexer,      *)
(* cross-root aggregation and the mutating operations built on it.         *)
(*                                                                         *)
(* 64-bit unsigned values are kept at full width as four 16-bit limbs,     *)
(* least significant first; all arithmetic on them is modulo 2^64.         *)
(* Strings (file names, sidecar images) are sequences of bytes 0..255.     *)
(***************************************************************************)
EXTENDS Integers, Sequences, FiniteSets, TLC

\* ------------------------------------------------------------------------
\* Bounds of the model
\* ------------------------------------------------------------------------
\* Largest number of regular files in one directory of the codec runs.
MaxFiles == 3
\* Largest number of files in a directory whose sidecar is damaged on disk.
MaxDamaged == 1
\* Number of loadOrCreateDirDb runs on the directory of the indexer runs.
MaxRuns == 3
\* Number of changes made to that directory by others between the runs.
MaxEnv == 1
\* Longest prefix of a sidecar image tried by the truncation step.
MaxCut == 12

\* ------------------------------------------------------------------------
\* uint64_t
\* ------------------------------------------------------------------------
Limb == 65536

U64Of(n) == <<n % Limb, n \div Limb, 0, 0>>

U64Max == <<Limb - 1, Limb - 1, Limb - 1, Limb - 1>>

\* 2^64 - n for a small n > 0 (the two's complement of n).
U64Neg(n) == <<Limb - n, Limb - 1, Limb - 1, Limb - 1>>

U64Lt(a, b) ==
    \E i \in 1..4 : a[i] < b[i] /\ \A j \in (i + 1)..4 : a[j] = b[j]

U64Add(a, b) ==
    LET s1 == a[1] + b[1]
        s2 == a[2] + b[2] + (s1 \div Limb)
        s3 == a[3] + b[3] + (s2 \div Limb)
        s4 == a[4] + b[4] + (s3 \div Limb)
    IN  <<s1 % Limb, s2 % Limb, s3 % Limb, s4 % Limb>>

\* The value is below 2^31 and can be used as a position or a count.
U64Fits(a) == a[3] = 0 /\ a[4] = 0 /\ a[2] < 32768

U64Nat(a) == a[1] + Limb * a[2]

\* a > n for a natural number n.
U64GtNat(a, n) == ~U64Fits(a) \/ U64Nat(a) > n

\* ------------------------------------------------------------------------
\* Bytes and strings
\* ------------------------------------------------------------------------
Byte == 0..255

RECURSIVE Rep(_, _)
Rep(b, n) == IF n = 0 THEN <<>> ELSE <<b>> \o Rep(b, n - 1)

Take(s, n) == SubSeq(s, 1, n)
Drop(s, n) == SubSeq(s, n + 1, Len(s))

\* std::string operator<: lexicographic on unsigned bytes.
RECURSIVE StrLess(_, _)
StrLess(a, b) ==
    IF b = <<>> THEN FALSE
    ELSE IF a = <<>> THEN TRUE
    ELSE IF a[1] # b[1] THEN a[1] < b[1]
    ELSE StrLess(Tail(a), Tail(b))

TagDirDB   == <<68, 105, 114, 68, 66>>
TagTOC     == <<84, 79, 67>>
TagFILES   == <<70, 73, 76, 69, 83>>
TagSTRINGS == <<83, 84, 82, 73, 78, 71, 83>>
DotDirDb   == <<46, 100, 105, 114, 100, 98>>

kDirDbVersion == 1

\* ------------------------------------------------------------------------
\* Little-endian primitives of the codec
\* ------------------------------------------------------------------------
makeTag(tag) ==
    LET b(i) == IF i <= Len(tag) /\ i <= 8 THEN tag[i] ELSE 0
    IN  [k \in 1..4 |-> b(2 * k - 1) + 256 * b(2 * k)]

\* The eight bytes appendU64Le pushes for value.
appendU64Le(value) ==
    <<value[1] % 256, value[1] \div 256, value[2] % 256, value[2] \div 256,
      value[3] % 256, value[3] \div 256, value[4] % 256, value[4] \div 256>>

\* The value readU64Le assembles from data[offset .. offset+7] (0-based
\* offset); the caller has checked offset + 8 <= size.
readU64Le(data, offset) ==
    [k \in 1..4 |-> data[offset + 2 * k - 1] + 256 * data[offset + 2 * k]]

\* The bytes appendLengthString pushes for s.
appendLengthString(s) ==
    LET len == Len(s)
    IN  IF len <= 252 THEN <<len>> \o s
        ELSE IF len <= 65535 THEN <<255, len % 256, (len \div 256) % 256>> \o s
        \* (a length above 0xffffffff, the 0xfd form, is beyond any name here)
        ELSE <<254, len % 256, (len \div 256) % 256,
               (len \div 65536) % 256, (len \div 16777216) % 256>> \o s

Fail(msg) == [kind |-> "error", err |-> msg]

\* readLengthStringAt(data, offset): [kind |-> "ok", str] or an error.
readLengthStringAt(data, offset) ==
    IF offset >= Len(data) THEN Fail("Invalid string offset in .dirdb")
    ELSE
    LET prefix == data[offset + 1]
        pos1 == offset + 1
        byteAt(p) == data[p + 1]
        hdr == IF prefix <= 252 THEN [ok |-> TRUE, len |-> U64Of(prefix), pos |-> pos1]
               ELSE IF prefix = 255 THEN
                    IF pos1 + 2 > Len(data) THEN [ok |-> FALSE, err |-> "Invalid 2-byte length in .dirdb"]
                    ELSE [ok |-> TRUE, pos |-> pos1 + 2,
                          len |-> <<byteAt(pos1) + 256 * byteAt(pos1 + 1), 0, 0, 0>>]
               ELSE IF prefix = 254 THEN
                    IF pos1 + 4 > Len(data) THEN [ok |-> FALSE, err |-> "Invalid 4-byte length in .dirdb"]
                    ELSE [ok |-> TRUE, pos |-> pos1 + 4,
                          len |-> <<byteAt(pos1) + 256 * byteAt(pos1 + 1),
                                    byteAt(pos1 + 2) + 256 * byteAt(pos1 + 3), 0, 0>>]
               ELSE \* prefix = 253
                    IF pos1 + 8 > Len(data) THEN [ok |-> FALSE, err |-> "Invalid 8-byte length in .dirdb"]
                    ELSE [ok |-> TRUE, pos |-> pos1 + 8, len |-> readU64Le(data, pos1)]
    IN  IF ~hdr.ok THEN Fail(hdr.err)
        ELSE IF U64GtNat(U64Add(U64Of(hdr.pos), hdr.len), Len(data))
             THEN Fail("Invalid string length in .dirdb")
        ELSE IF U64GtNat(hdr.len, Len(data))
             \* pos + len wrapped around 2^64: std::string(ptr, len) with
             \* len above max_size() throws std::length_error.
             THEN Fail("std::length_error")
        ELSE [kind |-> "ok", str |-> SubSeq(data, hdr.pos + 1, hdr.pos + U64Nat(hdr.len))]

\* ------------------------------------------------------------------------
\* readDirDb
\* ------------------------------------------------------------------------
ShortRead(what) == Fail("Unexpected end of .dirdb while reading " \o what)

\* The TOC loop with a fixed stride: every entry taken as 16 bytes long,
\* whatever tocEntrySize declares.
RECURSIVE readTocEntries_Stride16(_, _, _, _, _, _, _)
readTocEntries_Stride16(data, pos, i, tocCount, tocEntrySize, acc, back) ==
    IF ~U64Lt(U64Of(i), tocCount)
    THEN [kind |-> "ok", pos |-> pos, toc |-> acc, back |-> back]
    ELSE IF pos + 8 > Len(data) THEN ShortRead("TOC size")
    ELSE IF pos + 16 > Len(data) THEN ShortRead("TOC fileIndex")
    ELSE readTocEntries_Stride16(data, pos + 16, i + 1, tocCount, tocEntrySize,
             Append(acc, [size |-> readU64Le(data, pos), fileIndex |-> readU64Le(data, pos + 8)]),
             back)

\* The TOC loop of readDirDb from entry i on. back records whether the read
\* position was ever set to a smaller value than the entry's start.
RECURSIVE readTocEntries(_, _, _, _, _, _, _)
readTocEntries(data, pos, i, tocCount, tocEntrySize, acc, back) ==
    IF ~U64Lt(U64Of(i), tocCount)
    THEN [kind |-> "ok", pos |-> pos, toc |-> acc, back |-> back]
    ELSE IF pos + 8 > Len(data) THEN ShortRead("TOC size")
    ELSE IF pos + 16 > Len(data) THEN ShortRead("TOC fileIndex")
    ELSE LET entry == [size |-> readU64Le(data, pos), fileIndex |-> readU64Le(data, pos + 8)]
             expectedEnd == U64Add(U64Of(pos), tocEntrySize)
         IN  IF U64GtNat(expectedEnd, Len(data)) THEN Fail("Unexpected end of TOC")
             ELSE readTocEntries(data, U64Nat(expectedEnd), i + 1, tocCount, tocEntrySize,
                                 Append(acc, entry), back \/ U64Nat(expectedEnd) < pos + 16)

FileFieldNames == <<"nameIndex", "hashLo", "hashHi", "inodeNumber", "date", "numLinks">>

\* The file entry loop of readDirDb from entry i on.
RECURSIVE readRawEntries(_, _, _, _, _, _, _)
readRawEntries(data, pos, i, fileCount, fileEntrySize, acc, back) ==
    IF ~U64Lt(U64Of(i), fileCount)
    THEN [kind |-> "ok", pos |-> pos, raw |-> acc, back |-> back]
    ELSE IF \E k \in 1..6 : pos + 8 * k > Len(data)
    THEN ShortRead(FileFieldNames[CHOOSE k \in 1..6 :
              pos + 8 * k > Len(data) /\ \A j \in 1..(k - 1) : pos + 8 * j <= Len(data)])
    ELSE LET entry == [nameIndex |-> readU64Le(data, pos),
                       hash |-> [lo |-> readU64Le(data, pos + 8), hi |-> readU64Le(data, pos + 16)],
                       inode |-> readU64Le(data, pos + 24),
                       date |-> readU64Le(data, pos + 32),
                       numLinks |-> readU64Le(data, pos + 40)]
             expectedEnd == U64Add(U64Of(pos), fileEntrySize)
         IN  IF U64GtNat(expectedEnd, Len(data)) THEN Fail("Unexpected end of file entries")
             ELSE readRawEntries(data, U64Nat(expectedEnd), i + 1, fileCount, fileEntrySize,
                                 Append(acc, entry), back \/ U64Nat(expectedEnd) < pos + 48)

\* The size reconstruction loop of readDirDb from TOC entry i on; sizes is
\* the vector filled so far (1-based here, 0-based in the code).
RECURSIVE fillSizes(_, _, _, _, _)
fillSizes(tocEntries, i, fileCount, nRaw, sizes) ==
    IF i > Len(tocEntries) THEN [kind |-> "ok", sizes |-> sizes]
    ELSE LET start == tocEntries[i].fileIndex
             end == IF i + 1 <= Len(tocEntries) THEN tocEntries[i + 1].fileIndex ELSE fileCount
         IN  IF U64Lt(end, start) \/ U64GtNat(end, nRaw) THEN Fail("Invalid TOC index")
             ELSE fillSizes(tocEntries, i + 1, fileCount, nRaw,
                    [j \in 1..nRaw |->
                        IF U64Nat(start) <= j - 1 /\ j - 1 < U64Nat(end)
                        THEN tocEntries[i].size ELSE sizes[j]])

\* The final loop of readDirDb building dirData.files from entry i on.
RECURSIVE buildFiles(_, _, _, _, _)
buildFiles(rawEntries, strings, sizes, i, acc) ==
    IF i > Len(rawEntries) THEN [kind |-> "ok", files |-> acc]
    ELSE IF ~U64Lt(rawEntries[i].nameIndex, U64Of(Len(strings))) THEN Fail("Invalid name index")
    ELSE LET name == readLengthStringAt(strings, U64Nat(rawEntries[i].nameIndex))
         IN  IF name.kind # "ok" THEN name
             ELSE buildFiles(rawEntries, strings, sizes, i + 1,
                    Append(acc, [path |-> name.str, size |-> sizes[i],
                                 hash |-> rawEntries[i].hash, inode |-> rawEntries[i].inode,
                                 date |-> rawEntries[i].date, numLinks |-> rawEntries[i].numLinks]))

\* readDirDb after the last file entry is built: the result.
readDirDbResult(t, f, r) ==
    IF r.kind # "ok" THEN r
    ELSE [kind |-> "ok", files |-> r.files, toc |-> t.toc, back |-> f.back]

\* readDirDb after the size reconstruction z: the file list.
readDirDbNames(t, f, strings, z) ==
    IF z.kind # "ok" THEN z
    ELSE readDirDbResult(t, f, buildFiles(f.raw, strings, z.sizes, 1, <<>>))

\* readDirDb at the STRINGS payload, stringsSize bytes from pos on.
readDirDbStrings(data, t, fileCount, f, stringsSize, pos) ==
    IF U64GtNat(U64Add(U64Of(pos), stringsSize), Len(data)) THEN Fail("Invalid STRINGS size")
    ELSE IF U64GtNat(stringsSize, Len(data)) THEN [kind |-> "ub"]
    ELSE IF f.raw # <<>> /\ t.toc = <<>> THEN Fail("Missing TOC entries")
    ELSE readDirDbNames(t, f, SubSeq(data, pos + 1, pos + U64Nat(stringsSize)),
                        fillSizes(t.toc, 1, fileCount, Len(f.raw),
                                  [j \in 1..Len(f.raw) |-> U64Of(0)]))

\* readDirDb after the file entry loop returned f: the STRINGS header.
readDirDbStringsHeader(data, t, fileCount, f) ==
    IF f.kind # "ok" THEN f
    ELSE IF f.pos + 8 > Len(data) THEN ShortRead("STRINGS tag")
    ELSE IF readU64Le(data, f.pos) # makeTag(TagSTRINGS) THEN Fail("Missing STRINGS tag")
    ELSE IF f.pos + 16 > Len(data) THEN ShortRead("strings size")
    ELSE readDirDbStrings(data, t, fileCount, f, readU64Le(data, f.pos + 8), f.pos + 16)

\* readDirDb at the file entries.
readDirDbFiles(data, t, fileCount, fileEntrySize) ==
    IF U64Lt(fileEntrySize, U64Of(48)) THEN Fail("Unsupported file entry size")
    ELSE readDirDbStringsHeader(data, t, fileCount,
             readRawEntries(data, t.pos + 24, 0, fileCount, fileEntrySize, <<>>, t.back))

\* readDirDb after the TOC loop returned t: the FILES header.
readDirDbFilesHeader(data, t) ==
    IF t.kind # "ok" THEN t
    ELSE IF t.pos + 8 > Len(data) THEN ShortRead("FILES tag")
    ELSE IF readU64Le(data, t.pos) # makeTag(TagFILES) THEN Fail("Missing FILES tag")
    ELSE IF t.pos + 16 > Len(data) THEN ShortRead("file count")
    ELSE IF t.pos + 24 > Len(data) THEN ShortRead("file entry size")
    ELSE readDirDbFiles(data, t, readU64Le(data, t.pos + 8), readU64Le(data, t.pos + 16))

\* readDirDb at the TOC entries.
readDirDbToc(data, tocCount, tocEntrySize) ==
    IF U64Lt(tocEntrySize, U64Of(16)) THEN Fail("Unsupported TOC entry size")
    ELSE readDirDbFilesHeader(data, readTocEntries(data, 40, 0, tocCount, tocEntrySize, <<>>, FALSE))

\* readDirDb on the bytes of a sidecar: [kind |-> "ok", files, toc, back],
\* [kind |-> "error", err], or [kind |-> "ub"] where the code builds the
\* STRINGS vector from an iterator range whose end lies before its start.
readDirDb(data) ==
    IF 8 > Len(data) THEN ShortRead("DirDB tag")
    ELSE IF readU64Le(data, 0) # makeTag(TagDirDB) THEN Fail("Invalid .dirdb tag")
    ELSE IF 16 > Len(data) THEN ShortRead("version")
    ELSE IF readU64Le(data, 8) # U64Of(kDirDbVersion) THEN Fail("Unsupported .dirdb version")
    ELSE IF 24 > Len(data) THEN ShortRead("TOC tag")
    ELSE IF readU64Le(data, 16) # makeTag(TagTOC) THEN Fail("Missing TOC tag")
    ELSE IF 32 > Len(data) THEN ShortRead("TOC count")
    ELSE IF 40 > Len(data) THEN ShortRead("TOC entry size")
    ELSE readDirDbToc(data, readU64Le(data, 24), readU64Le(data, 32))

\* ------------------------------------------------------------------------
\* buildDirDb: ordering, TOC and serialisation of the scanned entries
\* ------------------------------------------------------------------------
\* EntryLess comparing the sizes only.
EntryLess_SizeOnly(a, b) == U64Lt(a.size, b.size)

\* The comparator handed to std::sort.
EntryLess(a, b) ==
    IF a.size # b.size THEN U64Lt(a.size, b.size) ELSE StrLess(a.path, b.path)

RECURSIVE InsertEntry(_, _)
InsertEntry(sorted, e) ==
    IF sorted = <<>> THEN <<e>>
    ELSE IF EntryLess(e, sorted[1]) THEN <<e>> \o sorted
    ELSE <<sorted[1]>> \o InsertEntry(Tail(sorted), e)

\* std::sort of the scanned entries (given in directory iteration order).
RECURSIVE SortEntries(_)
SortEntries(entries) ==
    IF entries = <<>> THEN <<>>
    ELSE InsertEntry(SortEntries(Take(entries, Len(entries) - 1)), entries[Len(entries)])

\* tocEntriesOf with the run's index taken 1-based.
RECURSIVE tocEntriesOf_OneBased(_, _)
tocEntriesOf_OneBased(entries, i) ==
    IF i > Len(entries) THEN <<>>
    ELSE (IF i = 1 \/ entries[i].size # entries[i - 1].size
          THEN <<[size |-> entries[i].size, fileIndex |-> U64Of(i)]>>
          ELSE <<>>) \o tocEntriesOf_OneBased(entries, i + 1)

\* One TOC entry per run of equal sizes, at the run's first (0-based) index.
RECURSIVE tocEntriesOf(_, _)
tocEntriesOf(entries, i) ==
    IF i > Len(entries) THEN <<>>
    ELSE (IF i = 1 \/ entries[i].size # entries[i - 1].size
          THEN <<[size |-> entries[i].size, fileIndex |-> U64Of(i - 1)]>>
          ELSE <<>>) \o tocEntriesOf(entries, i + 1)

\* The STRINGS blob: the names, length-prefixed, in order of appearance.
RECURSIVE stringDataOf(_)
stringDataOf(entries) ==
    IF entries = <<>> THEN <<>>
    ELSE appendLengthString(entries[1].path) \o stringDataOf(Tail(entries))

\* nameIndex of entry i: the size of the blob before its name is appended.
nameIndexOf(entries, i) == U64Of(Len(stringDataOf(Take(entries, i - 1))))

RECURSIVE TocBytes(_)
TocBytes(toc) ==
    IF toc = <<>> THEN <<>>
    ELSE appendU64Le(toc[1].size) \o appendU64Le(toc[1].fileIndex) \o TocBytes(Tail(toc))

RECURSIVE RawBytes(_, _)
RawBytes(entries, i) ==
    IF i > Len(entries) THEN <<>>
    ELSE appendU64Le(nameIndexOf(entries, i)) \o appendU64Le(entries[i].hash.lo)
         \o appendU64Le(entries[i].hash.hi) \o appendU64Le(entries[i].inode)
         \o appendU64Le(entries[i].date) \o appendU64Le(entries[i].numLinks)
         \o RawBytes(entries, i + 1)

\* The bytes buildDirDb writes to <dir>/.dirdb for the sorted entries.
EncodeDirDb(entries) ==
    LET toc == tocEntriesOf(entries, 1)
        stringData == stringDataOf(entries)
    IN  appendU64Le(makeTag(TagDirDB)) \o appendU64Le(U64Of(kDirDbVersion))
        \o appendU64Le(makeTag(TagTOC)) \o appendU64Le(U64Of(Len(toc))) \o appendU64Le(U64Of(16))
        \o TocBytes(toc)
        \o appendU64Le(makeTag(TagFILES)) \o appendU64Le(U64Of(Len(entries))) \o appendU64Le(U64Of(48))
        \o RawBytes(entries, 1)
        \o appendU64Le(makeTag(TagSTRINGS)) \o appendU64Le(U64Of(Len(stringData)))
        \o stringData

\* The same layout with tocPad after the 16 bytes of every TOC entry and
\* filePad after the 48 bytes of every file entry, as a later version of the
\* format may write it; readDirDb reads this layout.
RECURSIVE TocBytesPadded(_, _)
TocBytesPadded(toc, tocPad) ==
    IF toc = <<>> THEN <<>>
    ELSE appendU64Le(toc[1].size) \o appendU64Le(toc[1].fileIndex) \o tocPad
         \o TocBytesPadded(Tail(toc), tocPad)

RECURSIVE RawBytesPadded(_, _, _)
RawBytesPadded(entries, i, filePad) ==
    IF i > Len(entries) THEN <<>>
    ELSE appendU64Le(nameIndexOf(entries, i)) \o appendU64Le(entries[i].hash.lo)
         \o appendU64Le(entries[i].hash.hi) \o appendU64Le(entries[i].inode)
         \o appendU64Le(entries[i].date) \o appendU64Le(entries[i].numLinks) \o filePad
         \o RawBytesPadded(entries, i + 1, filePad)

EncodeDirDbPadded(entries, tocPad, filePad) ==
    LET toc == tocEntriesOf(entries, 1)
        stringData == stringDataOf(entries)
    IN  appendU64Le(makeTag(TagDirDB)) \o appendU64Le(U64Of(kDirDbVersion))
        \o appendU64Le(makeTag(TagTOC)) \o appendU64Le(U64Of(Len(toc)))
        \o appendU64Le(U64Of(16 + Len(tocPad)))
        \o TocBytesPadded(toc, tocPad)
        \o appendU64Le(makeTag(TagFILES)) \o appendU64Le(U64Of(Len(entries)))
        \o appendU64Le(U64Of(48 + Len(filePad)))
        \o RawBytesPadded(entries, 1, filePad)
        \o appendU64Le(makeTag(TagSTRINGS)) \o appendU64Le(U64Of(Len(stringData)))
        \o stringData

\* All orders in which a directory iteration can deliver a set of entries.
RECURSIVE Orders(_)
Orders(S) ==
    IF S = {} THEN {<<>>}
    ELSE UNION {{<<e>> \o t : t \in Orders(S \ {e})} : e \in S}

\* ------------------------------------------------------------------------
\* The file system under the program
\* ------------------------------------------------------------------------
\* Directories are sequences of path components; the tree is fixed:
\* /A, /A/s and /B.
CompA == <<65>>
CompB == <<66>>
CompS == <<115>>
DirA  == <<CompA>>
DirAS == <<CompA, CompS>>
DirB  == <<CompB>>
DirSet == {DirA, DirAS, DirB}

\* Number of inodes of the modelled file system.
MaxIno == 5

NoFile == "absent"

\* A file system F is a record:
\*   n : [existing entries [dir, name] -> inode number],
\*   i : [1..MaxIno -> [kind, content, mtime, xlinks]] (kind "free" if unused),
\*   s : [DirSet -> bytes of .dirdb, or NoFile].
\* content identifies the bytes of a file; xlinks counts links to the inode
\* from outside the tree.
PathOf(D, name) == [dir |-> D, name |-> name]

ParentOf(D) == Take(D, Len(D) - 1)

\* Contents 1 and 2 are one byte long, content 3 two bytes, content 4 three.
ContentSize(c) == IF c <= 2 THEN 1 ELSE c - 1

\* The digest of a content, taken as an injective function of the bytes.
HashOf(c) == [lo |-> <<c, 0, 0, 4096 + c>>, hi |-> <<7, 0, c % 2, 40000>>]

\* st_nlink of an inode.
NLink(F, id) == Cardinality({p \in DOMAIN F.n : F.n[p] = id}) + F.i[id].xlinks

Exists(F, p) == p \in DOMAIN F.n

\* The entries a directory iteration of D delivers, each with what stat
\* reports for it. The sidecar is a regular file of the directory.
DirEntries(F, D) ==
    { [name |-> p.name, kind |-> F.i[F.n[p]].kind, ino |-> F.n[p],
       size |-> ContentSize(F.i[F.n[p]].content), mtime |-> F.i[F.n[p]].mtime,
       nlink |-> NLink(F, F.n[p]), content |-> F.i[F.n[p]].content] :
      p \in {q \in DOMAIN F.n : q.dir = D} }
    \cup
    { [name |-> C[Len(C)], kind |-> "dir", ino |-> 100 + Len(C), size |-> 0,
       mtime |-> [sec |-> 1, nsec |-> 0], nlink |-> 2, content |-> 0] :
      C \in {X \in DirSet : Len(X) = Len(D) + 1 /\ ParentOf(X) = D} }
    \cup
    ( IF F.s[D] = NoFile THEN {}
      ELSE { [name |-> DotDirDb, kind |-> "reg", ino |-> 200 + Len(D), size |-> Len(F.s[D]),
              mtime |-> [sec |-> 2, nsec |-> 0], nlink |-> 1, content |-> 0] } )

\* ut1::getFileType(entry, false) == ut1::FT_REGULAR
IsRegular(entry) == entry.kind = "reg"

\* The order in which the iteration delivers the entries: any order is
\* possible; this one (names descending) makes the sort do its work.
RECURSIVE ScanOrder(_)
ScanOrder(S) ==
    IF S = {} THEN <<>>
    ELSE LET e == CHOOSE x \in S : \A y \in S : y.name = x.name \/ StrLess(y.name, x.name)
         IN  <<e>> \o ScanOrder(S \ {e})

\* ------------------------------------------------------------------------
\* fileTimeFromTimespec
\* ------------------------------------------------------------------------
\* 11644473600 = 0x2B6109100
kWindowsToUnixEpoch == <<37120, 46608, 2, 0>>

\* x * m modulo 2^64, for a factor m up to 10000.
U64MulSmall(x, m) ==
    LET p1 == x[1] * m
        p2 == x[2] * m + (p1 \div Limb)
        p3 == x[3] * m + (p2 \div Limb)
        p4 == x[4] * m + (p3 \div Limb)
    IN  <<p1 % Limb, p2 % Limb, p3 % Limb, p4 % Limb>>

\* x * 10000000ULL
U64MulTicks(x) == U64MulSmall(U64MulSmall(x, 10000), 1000)

fileTimeFromTimespec(ts) ==
    IF ts.sec < 0 THEN U64Of(0)
    ELSE U64Add(U64MulTicks(U64Add(U64Of(ts.sec), kWindowsToUnixEpoch)), U64Of(ts.nsec \div 100))

\* ------------------------------------------------------------------------
\* buildDirDb, updateDirDb, loadOrCreateDirDb
\* ------------------------------------------------------------------------
NoCache == [has |-> FALSE, files |-> <<>>]

\* HashReuseKeyOf without the date: a touched file would look unchanged.
HashReuseKeyOf_NoDate(inode, size, date) == [inode |-> inode, size |-> size, date |-> U64Of(0)]

HashReuseKeyOf(inode, size, date) == [inode |-> inode, size |-> size, date |-> date]

\* cache->find(key): the entries were emplaced in the order of the old file
\* list, so the first entry with the key is the one found.
CacheFirst(cache, hits) ==
    IF ~cache.has \/ hits = {} THEN [found |-> FALSE]
    ELSE [found |-> TRUE, hash |-> cache.files[CHOOSE i \in hits : \A j \in hits : i <= j].hash]

CacheFind(cache, key) ==
    CacheFirst(cache, {i \in 1..Len(cache.files) :
                          HashReuseKeyOf(cache.files[i].inode, cache.files[i].size,
                                         cache.files[i].date) = key})

\* One pass of the scan loop for a regular file: the entry pushed, and
\* what was hashed so far.
scanFile(entry, size, date, hit, acc) ==
    [entries |-> Append(acc.entries,
                    [path |-> entry.name, size |-> size,
                     hash |-> IF hit.found THEN hit.hash ELSE HashOf(entry.content),
                     inode |-> U64Of(entry.ino), date |-> date,
                     numLinks |-> U64Of(entry.nlink)]),
     hashed |-> IF hit.found THEN acc.hashed ELSE acc.hashed \cup {entry.name},
     hashedBytes |-> IF hit.found THEN acc.hashedBytes ELSE U64Add(acc.hashedBytes, size)]

scanStat(entry, size, date, cache, acc) ==
    scanFile(entry, size, date, CacheFind(cache, HashReuseKeyOf(U64Of(entry.ino), size, date)), acc)

\* The scan loop without the test for the sidecar's name: .dirdb is indexed
\* like any other regular file.
RECURSIVE scanEntries_WithSidecar(_, _, _, _)
scanEntries_WithSidecar(listing, k, cache, acc) ==
    IF k > Len(listing) THEN acc
    ELSE IF ~IsRegular(listing[k]) THEN scanEntries_WithSidecar(listing, k + 1, cache, acc)
    ELSE scanEntries_WithSidecar(listing, k + 1, cache,
                     scanStat(listing[k], U64Of(listing[k].size),
                              fileTimeFromTimespec(listing[k].mtime), cache, acc))

\* The scan loop of buildDirDb over the iteration order listing, from entry
\* k on: the scanned entries, the names whose bytes were hashed, and
\* hashedBytes.
RECURSIVE scanEntries(_, _, _, _)
scanEntries(listing, k, cache, acc) ==
    IF k > Len(listing) THEN acc
    ELSE IF listing[k].name = DotDirDb THEN scanEntries(listing, k + 1, cache, acc)
    ELSE IF ~IsRegular(listing[k]) THEN scanEntries(listing, k + 1, cache, acc)
    ELSE scanEntries(listing, k + 1, cache,
                     scanStat(listing[k], U64Of(listing[k].size),
                              fileTimeFromTimespec(listing[k].mtime), cache, acc))

\* buildDirDb after the sort: the DirDbData returned and the bytes written.
buildDirDbWritten(D, cache, sc, entries, out) ==
    [kind |-> "ok", wrote |-> TRUE, image |-> out, hashed |-> sc.hashed,
     didRead |-> cache.has, cached |-> cache.has,
     data |-> [path |-> D, files |-> entries, dbSize |-> Len(out),
               hashedBytes |-> sc.hashedBytes]]

buildDirDbSorted(D, cache, sc, entries) ==
    buildDirDbWritten(D, cache, sc, entries, EncodeDirDb(entries))

buildDirDbScanned(D, cache, sc) == buildDirDbSorted(D, cache, sc, SortEntries(sc.entries))

\* buildDirDb(dirPath, cache): the DirDbData returned and the bytes written
\* to dirPath/.dirdb.
buildDirDb(F, D, cache) ==
    buildDirDbScanned(D, cache,
        scanEntries(ScanOrder(DirEntries(F, D)), 1, cache,
                    [entries |-> <<>>, hashed |-> {}, hashedBytes |-> U64Of(0)]))

createDirDb(F, D) == buildDirDb(F, D, NoCache)

\* A failed call: nothing written, the exception propagates.
Thrown(r) == [kind |-> "error", wrote |-> FALSE, err |-> IF r.kind = "error" THEN r.err ELSE r.kind]

\* What the caller of readDirDb(dirPath) gets for the outcome r.
readDirDbLoaded(F, D, r) ==
    IF r.kind # "ok" THEN Thrown(r)
    ELSE [kind |-> "ok", wrote |-> FALSE, image |-> F.s[D], hashed |-> {},
          didRead |-> TRUE, cached |-> FALSE,
          data |-> [path |-> D, files |-> r.files, dbSize |-> Len(F.s[D]),
                    hashedBytes |-> U64Of(0)]]

readDirDbAt(F, D) == readDirDbLoaded(F, D, readDirDb(F.s[D]))

updateDirDbFrom(F, D, existing) ==
    IF existing.kind # "ok" THEN Thrown(existing)
    ELSE buildDirDb(F, D, [has |-> TRUE, files |-> existing.files])

updateDirDb(F, D) == updateDirDbFrom(F, D, readDirDb(F.s[D]))

\* loadOrCreateDirDb that reads an existing sidecar even under forceCreate
\* and rebuilds without the old sidecar under update.
loadOrCreateDirDb_ReadFirst(F, D, forceCreate, update) ==
    IF update THEN createDirDb(F, D)
    ELSE IF F.s[D] # NoFile THEN readDirDbAt(F, D)
    ELSE createDirDb(F, D)

loadOrCreateDirDb(F, D, forceCreate, update) ==
    IF update
    THEN IF F.s[D] # NoFile THEN updateDirDb(F, D) ELSE createDirDb(F, D)
    ELSE IF ~forceCreate /\ F.s[D] # NoFile THEN readDirDbAt(F, D)
    ELSE createDirDb(F, D)

\* The file system after a call that returned r for directory D.
AfterLoad(F, D, r) == IF r.wrote THEN [F EXCEPT !.s[D] = r.image] ELSE F

\* ------------------------------------------------------------------------
\* State
\* ------------------------------------------------------------------------
VARIABLES
    cdir,    \* codec run: the regular files of the directory being indexed
    img,     \* codec run: the bytes of its .dirdb
    corig,   \* codec run: who produced img ("none", "built", "foreign", "damaged")
    ret,     \* codec run: the file list buildDirDb returned
    res,     \* codec run: what readDirDb returned for img
    cpc,     \* codec run: position ("scan", "image", "read")
    fs,      \* the file system
    last,    \* indexer runs: the last loadOrCreateDirDb call and its outcome
    prev,    \* indexer runs: the call before it
    delta,   \* indexer runs: kinds of changes made to the directory since
    nrun,    \* indexer runs: calls so far
    nenv,    \* indexer runs: changes so far
    link,    \* link runs: the replaceWithHardlink call made and its outcome
    ded,     \* dedup runs and program runs: the state of the run under way
    calc     \* calculations: the function applied, its inputs and its result

cvars == <<cdir, img, corig, ret, res, cpc>>

ivars == <<last, prev, delta, nrun, nenv>>

vars == <<cdir, img, corig, ret, res, cpc, fs, last, prev, delta, nrun, nenv, link, ded, calc>>

\* ------------------------------------------------------------------------
\* Codec runs: build a sidecar (or find a foreign or damaged one), read it
\* ------------------------------------------------------------------------
NameA == <<97>>
NameM == <<109>>
\* A name of 253 bytes: the shortest that needs the 2-byte length form.
NameLong == Rep(120, 253)

CodecNames == {NameA, NameM, NameLong}
CodecSizes == {U64Of(0), U64Of(1), U64Max}
CodecMetas ==
    { [hash |-> [lo |-> U64Of(1), hi |-> U64Of(0)], inode |-> U64Of(1),
       date |-> U64Of(0), numLinks |-> U64Of(1)],
      [hash |-> [lo |-> U64Max, hi |-> <<0, 0, 0, 32768>>], inode |-> U64Max,
       date |-> <<54321, 1, 2, 3>>, numLinks |-> U64Of(2)] }

CodecPool ==
    { [path |-> n, size |-> z, hash |-> m.hash, inode |-> m.inode,
       date |-> m.date, numLinks |-> m.numLinks] :
      n \in CodecNames, z \in CodecSizes, m \in CodecMetas }

\* Directory contents: at most MaxFiles files, names unique in the directory.
CodecDirs ==
    { S \in SUBSET CodecPool :
        /\ Cardinality(S) <= MaxFiles
        /\ \A a, b \in S : a.path = b.path => a = b }

\* A sidecar of another writer: one file "a" of size 7, entries of
\* tocEntrySize 16 + Len(tocPad) and fileEntrySize 48 + Len(filePad).
ForeignImage(tocPad, filePad) ==
    appendU64Le(makeTag(TagDirDB)) \o appendU64Le(U64Of(kDirDbVersion))
    \o appendU64Le(makeTag(TagTOC)) \o appendU64Le(U64Of(1)) \o appendU64Le(U64Of(16 + Len(tocPad)))
    \o appendU64Le(U64Of(7)) \o appendU64Le(U64Of(0)) \o tocPad
    \o appendU64Le(makeTag(TagFILES)) \o appendU64Le(U64Of(1)) \o appendU64Le(U64Of(48 + Len(filePad)))
    \o appendU64Le(U64Of(0)) \o appendU64Le(U64Of(1)) \o appendU64Le(U64Of(2))
    \o appendU64Le(U64Of(3)) \o appendU64Le(U64Of(4)) \o appendU64Le(U64Of(5)) \o filePad
    \o appendU64Le(makeTag(TagSTRINGS)) \o appendU64Le(U64Of(2)) \o <<1, 97>>

\* Trailing bytes of an entry: none, zeros, or bytes that look like a
\* STRINGS section.
ForeignPads ==
    { <<>>, Rep(0, 8),
      appendU64Le(makeTag(TagSTRINGS)) \o appendU64Le(U64Of(2)) \o <<1, 97>> \o Rep(0, 6) }

ForeignImages == {ForeignImage(tp, fp) : tp, fp \in ForeignPads}

DamageVals ==
    { U64Of(0), U64Of(1), U64Of(2), U64Of(15), U64Of(40), U64Of(47),
      U64Max, U64Neg(16), U64Neg(48) }

DamageBytes == {0, 3, 253, 254, 255}

NoRun == [kind |-> "none", mode |-> "none"]

EmptyFs ==
    [n |-> <<>>,
     i |-> [k \in 1..MaxIno |-> [kind |-> "free", content |-> 0,
                                 mtime |-> [sec |-> 0, nsec |-> 0], xlinks |-> 0]],
     s |-> [D \in DirSet |-> NoFile]]

IndexIdle ==
    /\ last = NoRun /\ prev = NoRun /\ delta = {} /\ nrun = 0 /\ nenv = 0

NoLink == [pc |-> "none"]

LinkIdle == link = NoLink

NoDedup == [pc |-> "none"]

DedupIdle == ded = NoDedup

NoCalc == [op |-> "none"]

CalcIdle == calc = NoCalc

\* A step of a codec run leaves everything else alone.
CodecOnly == UNCHANGED <<fs, ivars, link, ded, calc>>

CodecInit ==
    /\ cdir \in CodecDirs
    /\ img = <<>> /\ corig = "none" /\ ret = <<>>
    /\ res = [kind |-> "none"] /\ cpc = "scan"
    /\ fs = EmptyFs /\ IndexIdle /\ LinkIdle /\ DedupIdle /\ CalcIdle

\* buildDirDb on the directory: sort, derive the TOC, write the sidecar.
CodecBuild ==
    /\ cpc = "scan"
    /\ \E order \in Orders(cdir) :
         /\ ret' = SortEntries(order)
         /\ img' = EncodeDirDb(SortEntries(order))
    /\ corig' = "built" /\ cpc' = "image"
    /\ UNCHANGED <<cdir, res>>
    /\ CodecOnly

\* The directory holds a sidecar this program did not write.
CodecForeign ==
    /\ cpc = "scan" /\ cdir = {}
    /\ img' \in ForeignImages
    /\ corig' = "foreign" /\ cpc' = "image"
    /\ UNCHANGED <<cdir, ret, res>>
    /\ CodecOnly

\* The directory holds a sidecar of its files that another writer of the
\* format left: the entries in the order that writer chose, with trailing
\* bytes in every entry.
CodecOther ==
    /\ cpc = "scan" /\ cdir # {}
    /\ \E order \in Orders(cdir), tocPad \in ForeignPads, filePad \in ForeignPads :
         /\ ret' = order
         /\ img' = EncodeDirDbPadded(order, tocPad, filePad)
    /\ corig' = "other" /\ cpc' = "image"
    /\ UNCHANGED <<cdir, res>>
    /\ CodecOnly

\* One 8-byte word of the sidecar is overwritten on disk.
CodecSetWord ==
    /\ cpc = "image" /\ corig \in {"built", "foreign"}
    /\ Cardinality(cdir) <= MaxDamaged
    /\ \E w \in 0..((Len(img) \div 8) - 1), v \in DamageVals :
         img' = Take(img, 8 * w) \o appendU64Le(v) \o Drop(img, 8 * w + 8)
    /\ corig' = "damaged"
    /\ UNCHANGED <<cdir, ret, res, cpc>>
    /\ CodecOnly

\* One of the last bytes of the sidecar is overwritten on disk.
CodecSetByte ==
    /\ cpc = "image" /\ corig \in {"built", "foreign"}
    /\ Cardinality(cdir) <= MaxDamaged
    /\ \E k \in 1..MaxCut, b \in DamageBytes :
         /\ k <= Len(img)
         /\ img' = [img EXCEPT ![Len(img) + 1 - k] = b]
    /\ corig' = "damaged"
    /\ UNCHANGED <<cdir, ret, res, cpc>>
    /\ CodecOnly

\* The sidecar is cut short (a crash while it was written).
CodecTruncate ==
    /\ cpc = "image" /\ corig \in {"built", "foreign"}
    /\ Cardinality(cdir) <= MaxDamaged
    /\ \E k \in 1..MaxCut :
         \/ k <= Len(img) /\ img' = Take(img, Len(img) - k)
         \/ 8 * k - 1 <= Len(img) /\ img' = Take(img, 8 * k - 1)
    /\ corig' = "damaged"
    /\ UNCHANGED <<cdir, ret, res, cpc>>
    /\ CodecOnly

\* readDirDb on the sidecar. Where the code runs into undefined behaviour
\* the build either throws or crashes.
CodecRead ==
    /\ cpc = "image"
    /\ LET r == readDirDb(img)
       IN  res' \in IF r.kind = "ub" THEN {Fail("std::length_error"), [kind |-> "crash"]}
                    ELSE {r}
    /\ cpc' = "read"
    /\ UNCHANGED <<cdir, img, corig, ret>>
    /\ CodecOnly

CodecNext ==
    \/ CodecBuild
    \/ CodecForeign
    \/ CodecOther
    \/ CodecSetWord
    \/ CodecSetByte
    \/ CodecTruncate
    \/ CodecRead

SpecCodec == CodecInit /\ [][CodecNext]_vars

\* ------------------------------------------------------------------------
\* C1  Round trip of the sidecar codec: reading the sidecar buildDirDb wrote
\*     returns the file list buildDirDb returned, in the same order, with
\*     the same name, size (rebuilt from the TOC), hash, inode, date and
\*     numLinks in every entry; and that list holds exactly the files of
\*     the directory.
\* ------------------------------------------------------------------------
C1_RoundTrip ==
    (cpc = "read" /\ corig = "built") =>
        /\ res.kind = "ok"
        /\ res.files = ret
        /\ {res.files[i] : i \in 1..Len(res.files)} = cdir
        /\ Len(res.files) = Cardinality(cdir)

\* Two files of one size, one of them with a 253-byte name, read back.
C1_Witness ==
    /\ cpc = "read" /\ corig = "built" /\ res.kind = "ok"
    /\ Len(ret) = 2 /\ ret[1].size = ret[2].size
    /\ ret[2].path = NameLong /\ ret[1].size = U64Max

\* ------------------------------------------------------------------------
\* The sidecar layout as the format declares it, in exact arithmetic
\* ------------------------------------------------------------------------
U64Small(u, n) == U64Fits(u) /\ U64Nat(u) <= n

\* The length-prefixed string at offset off lies fully within blob.
StringInside(blob, off) ==
    /\ off < Len(blob)
    /\ LET prefix == blob[off + 1] IN
       IF prefix <= 252 THEN off + 1 + prefix <= Len(blob)
       ELSE IF prefix = 255 THEN
            /\ off + 3 <= Len(blob)
            /\ off + 3 + blob[off + 2] + 256 * blob[off + 3] <= Len(blob)
       ELSE IF prefix = 254 THEN
            /\ off + 5 <= Len(blob)
            /\ blob[off + 4] = 0 /\ blob[off + 5] = 0
            /\ off + 5 + blob[off + 2] + 256 * blob[off + 3] <= Len(blob)
       ELSE /\ off + 9 <= Len(blob)
            /\ \A k \in 4..9 : blob[off + k] = 0
            /\ off + 9 + blob[off + 2] + 256 * blob[off + 3] <= Len(blob)

\* d has none of the defects: tags and version right, entry sizes at least
\* 16 and 48, every declared field, entry and the STRINGS blob inside the
\* data, every nameIndex below stringsSize with its string inside the blob.
WellFormedImage(d) ==
    LET n == Len(d) IN
    /\ n >= 40
    /\ readU64Le(d, 0) = makeTag(TagDirDB)
    /\ readU64Le(d, 8) = U64Of(kDirDbVersion)
    /\ readU64Le(d, 16) = makeTag(TagTOC)
    /\ LET tc == readU64Le(d, 24)
           tes == readU64Le(d, 32)
       IN
       /\ ~U64Lt(tes, U64Of(16))
       /\ tc = U64Of(0) \/ (U64Small(tc, n) /\ U64Small(tes, n) /\ 40 + U64Nat(tc) * U64Nat(tes) <= n)
       /\ LET p1 == IF tc = U64Of(0) THEN 40 ELSE 40 + U64Nat(tc) * U64Nat(tes) IN
          /\ p1 + 24 <= n
          /\ readU64Le(d, p1) = makeTag(TagFILES)
          /\ LET fc == readU64Le(d, p1 + 8)
                 fes == readU64Le(d, p1 + 16)
             IN
             /\ ~U64Lt(fes, U64Of(48))
             /\ fc = U64Of(0) \/ (U64Small(fc, n) /\ U64Small(fes, n) /\ p1 + 24 + U64Nat(fc) * U64Nat(fes) <= n)
             /\ LET p2 == IF fc = U64Of(0) THEN p1 + 24 ELSE p1 + 24 + U64Nat(fc) * U64Nat(fes) IN
                /\ p2 + 16 <= n
                /\ readU64Le(d, p2) = makeTag(TagSTRINGS)
                /\ U64Small(readU64Le(d, p2 + 8), n - (p2 + 16))
                /\ LET ss == U64Nat(readU64Le(d, p2 + 8))
                       blob == SubSeq(d, p2 + 17, p2 + 16 + ss)
                   IN  \A i \in 0..(U64Nat(fc) - 1) :
                         LET ni == readU64Le(d, p1 + 24 + i * U64Nat(fes)) IN
                         /\ U64Small(ni, ss)
                         /\ StringInside(blob, U64Nat(ni))

\* ------------------------------------------------------------------------
\* C8  readDirDb rejects every sidecar with a wrong DirDB/TOC/FILES/STRINGS
\*     tag, a version other than 1, tocEntrySize below 16, fileEntrySize
\*     below 48, data ending before a declared field, or a file entry whose
\*     nameIndex or string does not lie within the STRINGS blob: such a
\*     sidecar never yields a DirDbData.
\* ------------------------------------------------------------------------
C8_RejectsMalformed ==
    (cpc = "read" /\ ~WellFormedImage(img)) => res.kind # "ok"

\* ------------------------------------------------------------------------
\* C9  Size reconstruction: after a successful read every file entry index
\*     lies in the [fileIndex, nextFileIndex) range of a TOC entry (the last
\*     range ending at fileCount) and the entry has that TOC entry's size.
\* ------------------------------------------------------------------------
C9_SizeFromToc ==
    (cpc = "read" /\ res.kind = "ok") =>
        \A i \in 1..Len(res.files) :
            \E k \in 1..Len(res.toc) :
                LET start == res.toc[k].fileIndex
                    end == IF k < Len(res.toc) THEN res.toc[k + 1].fileIndex
                           ELSE U64Of(Len(res.files))
                IN  /\ ~U64Lt(U64Of(i - 1), start)
                    /\ U64Lt(U64Of(i - 1), end)
                    /\ res.files[i].size = res.toc[k].size

\* ------------------------------------------------------------------------
\* Indexer runs: loadOrCreateDirDb on /A, in any mode, while other programs
\* change the directory between the runs
\* ------------------------------------------------------------------------
NameZ == <<122>>
NameL == <<108>>

IndexNames == {NameA, NameM, NameZ}

Inode(kind, content, sec, nsec, xlinks) ==
    [kind |-> kind, content |-> content, mtime |-> [sec |-> sec, nsec |-> nsec],
     xlinks |-> xlinks]

FreeInode == Inode("free", 0, 0, 0, 0)

\* /A holds a (inode 1), m (inode 2, same size and, within 100 ns, the same
\* mtime as a), a symbolic link l, the subdirectory s, and possibly z: a
\* file dated before 1970 or a second link to a's inode.
IndexInodes ==
    [k \in 1..MaxIno |->
        IF k = 1 THEN Inode("reg", 1, 10, 0, 0)
        ELSE IF k = 2 THEN Inode("reg", 2, 10, 50, 0)
        ELSE IF k = 3 THEN Inode("reg", 3, -5, 0, 0)
        ELSE IF k = 4 THEN Inode("symlink", 0, 10, 0, 0)
        ELSE FreeInode]

IndexFs(z) ==
    [n |-> [p \in {PathOf(DirA, NameA), PathOf(DirA, NameM), PathOf(DirA, NameL)}
                  \cup (IF z = 0 THEN {} ELSE {PathOf(DirA, NameZ)}) |->
              IF p.name = NameA THEN 1 ELSE IF p.name = NameM THEN 2
              ELSE IF p.name = NameL THEN 4 ELSE z],
     i |-> IndexInodes,
     s |-> [D \in DirSet |-> NoFile]]

CodecIdle ==
    /\ cdir = {} /\ img = <<>> /\ corig = "none" /\ ret = <<>>
    /\ res = [kind |-> "none"] /\ cpc = "idle"

IndexInit ==
    /\ CodecIdle
    /\ fs \in {IndexFs(z) : z \in {0, 1, 3}}
    /\ IndexIdle /\ LinkIdle /\ DedupIdle /\ CalcIdle

\* A step of an indexer run leaves the codec run alone.
IndexOnly == UNCHANGED <<cvars, link, ded, calc>>

RegularNames(F, D) ==
    {e.name : e \in {x \in DirEntries(F, D) : x.kind = "reg" /\ x.name # DotDirDb}}

Unlink(F, p) ==
    LET id == F.n[p]
        n2 == [q \in DOMAIN F.n \ {p} |-> F.n[q]]
        gone == ~\E q \in DOMAIN n2 : n2[q] = id
    IN  [F EXCEPT !.n = n2,
                  !.i = IF gone /\ F.i[id].xlinks = 0 THEN [F.i EXCEPT ![id] = FreeInode] ELSE F.i]

\* What happened to the directory between the writing of the sidecar a run
\* finds and the start of that run: nothing if there is no sidecar, the
\* changes since the last run if that run wrote it, and those on top of what
\* the last run found otherwise.
SinceWritten ==
    IF fs.s[DirA] = NoFile THEN {}
    ELSE IF "wrote" \in DOMAIN last /\ last.wrote THEN delta
    ELSE IF "since" \in DOMAIN last THEN last.since \cup delta
    ELSE delta

\* The state after the call returned (or threw) r.
IndexRan(mode, r) ==
    /\ fs' = AfterLoad(fs, DirA, r)
    /\ last' = r @@ [mode |-> mode, existed |-> fs.s[DirA] # NoFile,
                     before |-> fs.s[DirA], quiet |-> delta, since |-> SinceWritten]

\* One call of loadOrCreateDirDb(/A, forceCreate, update).
IndexRun ==
    /\ nrun < MaxRuns
    /\ \E mode \in {"read", "force", "update"} :
         IndexRan(mode, loadOrCreateDirDb(fs, DirA, mode = "force", mode = "update"))
    /\ prev' = last
    /\ delta' = {}
    /\ nrun' = nrun + 1
    /\ UNCHANGED nenv
    /\ IndexOnly

EnvStep(F, tag) ==
    /\ nrun > 0 /\ nenv < MaxEnv
    /\ fs' = F
    /\ delta' = delta \cup {tag}
    /\ nenv' = nenv + 1
    /\ UNCHANGED <<last, prev, nrun>>
    /\ IndexOnly

\* A file is touched: its mtime moves by a second, or by 50 ns only.
EnvTouch ==
    \E name \in RegularNames(fs, DirA), fine \in BOOLEAN :
        LET id == fs.n[PathOf(DirA, name)]
            t == fs.i[id].mtime
        IN  EnvStep([fs EXCEPT !.i[id].mtime =
                        IF fine THEN [t EXCEPT !.nsec = t.nsec + 50]
                        ELSE [t EXCEPT !.sec = t.sec + 1]], "mtime")

\* A file is rewritten with bytes of another length.
EnvRewrite ==
    \E name \in RegularNames(fs, DirA), c \in {3, 4} :
        LET id == fs.n[PathOf(DirA, name)] IN
        /\ c = IF fs.i[id].content = 3 THEN 4 ELSE 3
        /\ EnvStep([fs EXCEPT !.i[id].content = c,
                              !.i[id].mtime.sec = fs.i[id].mtime.sec + 1], "rewrite")

\* A file's bytes are changed in place, length and mtime kept.
EnvSilent ==
    \E name \in RegularNames(fs, DirA), c \in {1, 2} :
        LET id == fs.n[PathOf(DirA, name)] IN
        /\ c # fs.i[id].content
        /\ ContentSize(c) = ContentSize(fs.i[id].content)
        /\ EnvStep([fs EXCEPT !.i[id].content = c], "silent")

EnvDelete ==
    \E name \in RegularNames(fs, DirA) :
        EnvStep(Unlink(fs, PathOf(DirA, name)), "delete")

\* A new file appears, on any free inode number.
EnvCreate ==
    \E name \in IndexNames, id \in 1..MaxIno, c \in {1} :
        /\ ~Exists(fs, PathOf(DirA, name))
        /\ fs.i[id].kind = "free"
        /\ EnvStep([fs EXCEPT !.n = (PathOf(DirA, name) :> id) @@ fs.n,
                              !.i[id] = Inode("reg", c, 10, 0, 0)], "add")

\* The sidecar is deleted, or cut short.
EnvSidecar ==
    /\ fs.s[DirA] # NoFile
    /\ \/ EnvStep([fs EXCEPT !.s[DirA] = NoFile], "nodb")
       \/ EnvStep([fs EXCEPT !.s[DirA] = Take(fs.s[DirA], 20)], "cutdb")

IndexNext ==
    \/ IndexRun
    \/ EnvTouch
    \/ EnvRewrite
    \/ EnvSilent
    \/ EnvDelete
    \/ EnvCreate
    \/ EnvSidecar

SpecIndex == IndexInit /\ [][IndexNext]_vars

\* The directory as it is now is the directory the last run saw.
AfterRun == nrun > 0 /\ delta = {} /\ last.kind = "ok"

RegularEntries(F, D) == {x \in DirEntries(F, D) : x.kind = "reg" /\ x.name # DotDirDb}

FilesOf(data) == {data.files[i] : i \in 1..Len(data.files)}

\* A file was hashed in the last run exactly if old, the list of the sidecar
\* the run found, has no entry with the file's (inode, size, date).
C5_HashedIffNew(old) ==
    \A e \in RegularEntries(fs, DirA) :
        (e.name \in last.hashed) <=>
            ~\E k \in 1..Len(old) :
                /\ old[k].inode = U64Of(e.ino)
                /\ old[k].size = U64Of(e.size)
                /\ old[k].date = fileTimeFromTimespec(e.mtime)

\* ------------------------------------------------------------------------
\* C5  Incremental reuse. In an update run over an existing sidecar a file
\*     is hashed if and only if that sidecar has no entry with the file's
\*     (inode, size, date). If the run before was an update run too and in
\*     between no file's (inode, size, mtime) changed and none was added
\*     (bytes rewritten in place and deletions are all that happened), the
\*     run hashes 0 bytes and every entry has the hash the run before
\*     stored for it.
\* ------------------------------------------------------------------------
C5_IncrementalReuse ==
    (AfterRun /\ last.mode = "update" /\ last.existed) =>
        /\ C5_HashedIffNew(readDirDb(last.before).files)
        /\ (prev.kind = "ok" /\ prev.mode = "update" /\ last.quiet \subseteq {"silent", "delete"}) =>
              /\ last.data.hashedBytes = U64Of(0)
              /\ last.hashed = {}
              /\ \A x \in FilesOf(last.data) :
                    \E y \in FilesOf(prev.data) : y.path = x.path /\ y.hash = x.hash

\* Two update runs in a row, a file's bytes changed in place in between:
\* nothing is hashed, the stored hash is kept.
C5_Witness ==
    /\ AfterRun /\ last.mode = "update" /\ last.existed
    /\ prev.kind = "ok" /\ prev.mode = "update" /\ last.quiet = {"silent"}
    /\ Len(last.data.files) >= 2
    /\ last.data.hashedBytes = U64Of(0)

\* The list f is ordered and complete for the directory, and w, read back
\* from the sidecar, holds f and one TOC entry per distinct size.
C6_Ordered(f, w) ==
    /\ \A i \in 1..(Len(f) - 1) :
          \/ U64Lt(f[i].size, f[i + 1].size)
          \/ f[i].size = f[i + 1].size /\ StrLess(f[i].path, f[i + 1].path)
    /\ \A i \in 1..Len(f) : f[i].path # DotDirDb
    /\ {f[i].path : i \in 1..Len(f)} = {e.name : e \in RegularEntries(fs, DirA)}
    /\ Len(f) = Cardinality(RegularEntries(fs, DirA))
    /\ \A i \in 1..Len(f) : \A k \in 1..Len(f[i].path) : f[i].path[k] # 47
    /\ w.kind = "ok" /\ w.files = f
    /\ Len(w.toc) = Cardinality({f[i].size : i \in 1..Len(f)})
    /\ \A i \in 1..Len(f) :
          \E k \in 1..Len(w.toc) :
              /\ w.toc[k].size = f[i].size
              /\ w.toc[k].fileIndex =
                    U64Of((CHOOSE j \in 1..Len(f) :
                              f[j].size = f[i].size /\ \A h \in 1..(j - 1) : f[h].size # f[i].size) - 1)

\* ------------------------------------------------------------------------
\* C6  After any build (fresh or update) the returned and written file list
\*     is strictly ordered by (size, name), has no entry named .dirdb, holds
\*     exactly the regular files of the directory (no directory, symbolic
\*     link or special file) under their leaf names, and the TOC has exactly
\*     one entry per distinct size, pointing at the first entry of that size.
\* ------------------------------------------------------------------------
C6_BuildOrdered ==
    (AfterRun /\ last.wrote) => C6_Ordered(last.data.files, readDirDb(fs.s[DirA]))

\* A build of a directory with three regular files, two of one size, next
\* to a symbolic link, a subdirectory and an older sidecar.
C6_Witness ==
    /\ AfterRun /\ last.wrote /\ last.existed
    /\ Len(last.data.files) = 3
    /\ last.data.files[1].size = last.data.files[2].size
    /\ last.data.files[2].size # last.data.files[3].size
    /\ \E e \in DirEntries(fs, DirA) : e.kind = "symlink"
    /\ \E e \in DirEntries(fs, DirA) : e.kind = "dir"

\* The policy table; fresh: the last run was a build without a cache that
\* hashed every regular file and wrote the list; old: the sidecar read back
\* as the run found it.
C7_Policy(fresh, old) ==
    /\ (last.mode = "read" /\ last.existed) =>
          /\ ~last.wrote /\ last.hashed = {} /\ fs.s[DirA] = last.before
          /\ last.data.files = old.files
          /\ last.data.hashedBytes = U64Of(0)
    /\ ~last.existed => fresh
    /\ (last.mode = "force" /\ last.existed) => fresh /\ ~last.didRead
    /\ (last.mode = "update" /\ last.existed) =>
          /\ last.didRead /\ last.cached /\ last.wrote
          /\ fs.s[DirA] = EncodeDirDb(last.data.files)
          /\ \A i \in 1..Len(last.data.files) :
                last.data.files[i].path \notin last.hashed =>
                    \E k \in 1..Len(old.files) : old.files[k].hash = last.data.files[i].hash

\* ------------------------------------------------------------------------
\* C7  Load policy. Read mode over an existing sidecar reads it, writes
\*     nothing and hashes nothing. With no sidecar every mode builds fresh
\*     (every regular file hashed) and writes it. Force-create over an
\*     existing sidecar rebuilds without a reuse cache (every regular file
\*     hashed) and overwrites it. Update over an existing sidecar reads it,
\*     takes the reuse cache from it, rebuilds and overwrites it.
\* ------------------------------------------------------------------------
C7_LoadPolicy ==
    AfterRun =>
        C7_Policy(/\ last.wrote /\ ~last.cached
                  /\ last.hashed = {e.name : e \in RegularEntries(fs, DirA)}
                  /\ fs.s[DirA] = EncodeDirDb(last.data.files),
                  IF last.existed THEN readDirDb(last.before) ELSE [files |-> <<>>])

\* A force-create run over an existing sidecar that lists other hashes than
\* the files have now.
C7_Witness ==
    /\ AfterRun /\ last.mode = "force" /\ last.existed /\ last.wrote
    /\ last.quiet = {"silent"}
    /\ last.before # fs.s[DirA]
    /\ Len(last.data.files) >= 2

\* ------------------------------------------------------------------------
\* replaceWithHardlink
\* ------------------------------------------------------------------------
\* Candidate temporary names tried.
kTempTries == 100

\* ".treeop_link_tmp"
TempSuffix == <<46, 116, 114, 101, 101, 111, 112, 95, 108, 105, 110, 107, 95, 116, 109, 112>>

\* ut1::toStr(i) for 0 <= i < 100.
toStr(i) == IF i < 10 THEN <<48 + i>> ELSE <<48 + (i \div 10), 48 + (i % 10)>>

\* The i-th candidate: target + ".treeop_link_tmp", then the number if i > 0.
TempPath(target, i) ==
    [target EXCEPT !.name = target.name \o TempSuffix \o (IF i > 0 THEN toStr(i) ELSE <<>>)]

\* fs::create_hard_link(source, p, ec): fails when the system refuses it,
\* when source is missing and when p exists.
create_hard_link(F, source, p, refused) ==
    IF refused \/ ~Exists(F, source) \/ Exists(F, p) THEN [ok |-> FALSE, fs |-> F]
    ELSE [ok |-> TRUE, fs |-> [F EXCEPT !.n = (p :> F.n[source]) @@ F.n]]

\* fs::rename(old, new, ec): nothing is done, with success, when new is old
\* or a hard link to it; otherwise new is replaced by old in one step.
rename(F, old, new, refused) ==
    IF refused \/ ~Exists(F, old) THEN [ok |-> FALSE, fs |-> F]
    ELSE IF Exists(F, new) /\ F.n[new] = F.n[old] THEN [ok |-> TRUE, fs |-> F]
    ELSE LET G == IF Exists(F, new) THEN Unlink(F, new) ELSE F
             id == F.n[old]
         IN  [ok |-> TRUE,
              fs |-> [G EXCEPT !.n = [q \in (DOMAIN G.n \ {old}) \cup {new} |->
                                         IF q = new THEN id ELSE G.n[q]]]]

\* fs::remove(p, ec), its outcome ignored by the caller.
remove(F, p, refused) == IF refused \/ ~Exists(F, p) THEN F ELSE Unlink(F, p)

\* The system calls of one replaceWithHardlink that the system may refuse.
LinkCalls == {"link", "rename", "remove", "retry", "cleanup"}

\* replaceWithHardlink(source, target, errorMsg) on file system F, the
\* calls in refused failing: the return value, the file system left behind
\* and the temporary path used.
replaceWithHardlink(F, source, target, refused) ==
    LET free == {i \in 0..(kTempTries - 1) : ~Exists(F, TempPath(target, i))}
        temp == IF free = {} THEN TempPath(target, kTempTries - 1)
                ELSE TempPath(target, CHOOSE i \in free : \A j \in free : i <= j)
    IN  IF Exists(F, temp)
        THEN [ret |-> FALSE, fs |-> F, temp |-> temp, err |-> "No temporary path available"]
        ELSE LET l == create_hard_link(F, source, temp, "link" \in refused) IN
             IF ~l.ok
             THEN [ret |-> FALSE, fs |-> l.fs, temp |-> temp, err |-> "Failed to create hardlink"]
             ELSE LET r1 == rename(l.fs, temp, target, "rename" \in refused) IN
                  IF r1.ok THEN [ret |-> TRUE, fs |-> r1.fs, temp |-> temp, err |-> ""]
                  ELSE LET rm == remove(r1.fs, target, "remove" \in refused)
                           r2 == rename(rm, temp, target, "retry" \in refused)
                       IN  IF r2.ok THEN [ret |-> TRUE, fs |-> r2.fs, temp |-> temp, err |-> ""]
                           ELSE [ret |-> FALSE,
                                 fs |-> remove(r2.fs, temp, "cleanup" \in refused),
                                 temp |-> temp, err |-> "Failed to replace"]

\* ------------------------------------------------------------------------
\* Link runs: one replaceWithHardlink(/A/a, T) while other programs leave
\* files under the temporary names, and the system may refuse calls.
\* ------------------------------------------------------------------------
\* Temporary names 0..MaxStray may be taken and given up by other programs.
MaxStray == 1

\* /A holds a (inode 1), m (inode 2), z (a second link to inode 1), and
\* files of another program (inode 3) under the first taken candidates.
LinkFs(T, taken) ==
    [n |-> [p \in {PathOf(DirA, NameA), PathOf(DirA, NameM), PathOf(DirA, NameZ)}
                  \cup {TempPath(T, i) : i \in 0..(taken - 1)} |->
              IF p.name = NameA THEN 1 ELSE IF p.name = NameM THEN 2
              ELSE IF p.name = NameZ THEN 1 ELSE 3],
     i |-> IndexInodes,
     s |-> [D \in DirSet |-> NoFile]]

LinkSource == PathOf(DirA, NameA)

LinkTargets == {PathOf(DirA, NameM), PathOf(DirA, NameZ)}

LinkInit ==
    /\ CodecIdle /\ IndexIdle /\ DedupIdle /\ CalcIdle
    /\ link = NoLink
    /\ fs \in {LinkFs(T, taken) : T \in LinkTargets, taken \in {0, kTempTries - 1, kTempTries}}

LinkOnly == UNCHANGED <<cvars, ivars, ded, calc>>

\* Another program creates a file under a temporary name.
LinkStrayAdd ==
    /\ link.pc = "none"
    /\ \E T \in LinkTargets, i \in 0..MaxStray :
          /\ ~Exists(fs, TempPath(T, i))
          /\ fs' = [fs EXCEPT !.n = (TempPath(T, i) :> 3) @@ fs.n]
    /\ UNCHANGED link
    /\ LinkOnly

\* Another program removes its file under a temporary name.
LinkStrayRemove ==
    /\ link.pc = "none"
    /\ \E T \in LinkTargets, i \in 0..MaxStray :
          /\ Exists(fs, TempPath(T, i))
          /\ fs' = [fs EXCEPT !.n = [q \in DOMAIN fs.n \ {TempPath(T, i)} |-> fs.n[q]]]
    /\ UNCHANGED link
    /\ LinkOnly

LinkCalled(T, refused, r) ==
    /\ fs' = r.fs
    /\ link' = [pc |-> "done", source |-> LinkSource, target |-> T,
                refused |-> refused, before |-> fs, ret |-> r.ret,
                temp |-> r.temp, err |-> r.err]

\* The call.
LinkCall ==
    /\ link.pc = "none"
    /\ \E T \in LinkTargets, refused \in SUBSET LinkCalls :
          LinkCalled(T, refused, replaceWithHardlink(fs, LinkSource, T, refused))
    /\ LinkOnly

LinkNext ==
    \/ LinkStrayAdd
    \/ LinkStrayRemove
    \/ LinkCall

SpecLink == LinkInit /\ [][LinkNext]_vars

\* ------------------------------------------------------------------------
\* C3  Whenever replaceWithHardlink(S, T) returns success, from any prior
\*     file-system state, T exists, T has the inode of S, and none of the
\*     paths T.treeop_link_tmp, T.treeop_link_tmp1, ... exists.
\* ------------------------------------------------------------------------
C3_LinkSuccess ==
    (link.pc = "done" /\ link.ret) =>
        /\ Exists(fs, link.target)
        /\ fs.n[link.target] = fs.n[link.source]
        /\ \A i \in 0..(kTempTries - 1) : ~Exists(fs, TempPath(link.target, i))

\* ------------------------------------------------------------------------
\* C4  Whenever replaceWithHardlink(S, T) returns failure, on any path, T
\*     still exists and is still the original file; the old file at T is
\*     gone only in runs that end with T being a link to S.
\* ------------------------------------------------------------------------
C4_LinkFailureKeepsTarget ==
    link.pc = "done" =>
        /\ ~link.ret =>
              /\ Exists(fs, link.target)
              /\ fs.n[link.target] = link.before.n[link.target]
              /\ fs.i[fs.n[link.target]] = link.before.i[fs.n[link.target]]
        /\ (~Exists(fs, link.target) \/ fs.n[link.target] # link.before.n[link.target]) =>
              /\ Exists(fs, link.target)
              /\ fs.n[link.target] = fs.n[link.source]

\* ------------------------------------------------------------------------
\* MainDb: processRoots, remove-copies, hardlink-copies
\* ------------------------------------------------------------------------
\* Roots on the command line.
MaxRoots == 2

\* Largest --max-hardlinks tried.
MaxLinks == 3

\* The loop of isPathWithin from component k on: a mismatch ends it with
\* false, and at the end of either sequence the answer is rootIt == root.end().
RECURSIVE isPathWithinFrom(_, _, _)
isPathWithinFrom(root, path, k) ==
    IF k <= Len(root) /\ k <= Len(path)
    THEN IF root[k] # path[k] THEN FALSE ELSE isPathWithinFrom(root, path, k + 1)
    ELSE k > Len(root)

\* isPathWithin that answers true whichever sequence ends first.
isPathWithin_EitherEnds(root, path) ==
    \A k \in 1..Len(root) : k <= Len(path) => root[k] = path[k]

isPathWithin(root, path) == isPathWithinFrom(root, path, 1)

\* The path string of a directory and of a file in it.
RECURSIVE DirStr(_)
DirStr(D) == IF D = <<>> THEN <<>> ELSE <<47>> \o D[1] \o DirStr(Tail(D))

PathStr(p) == DirStr(p.dir) \o <<47>> \o p.name

\* The directories below root, as the recursive iteration meets them.
RECURSIVE DirSeq(_)
DirSeq(S) ==
    IF S = {} THEN <<>>
    ELSE LET d == CHOOSE x \in S : \A y \in S :
                      y = x \/ Len(x) < Len(y) \/ (Len(x) = Len(y) /\ StrLess(DirStr(x), DirStr(y)))
         IN  <<d>> \o DirSeq(S \ {d})

SubDirs(root) == DirSeq({D \in DirSet : D # root /\ isPathWithin(root, D)})

\* The loadOrCreateDirDb calls of processDirTree(root), in order.
VisitsOf(root) == <<root>> \o SubDirs(root)

RECURSIVE VisitList(_)
VisitList(roots) == IF roots = <<>> THEN <<>> ELSE VisitsOf(roots[1]) \o VisitList(Tail(roots))

\* processRoots: addDir(loadOrCreateDirDb(D)) for every visit from k on; an
\* exception ends the program.
RECURSIVE loadDirs(_, _, _, _, _, _), addDir(_, _, _, _, _, _, _)
loadDirs(F, visits, k, forceCreate, update, dirs) ==
    IF k > Len(visits) THEN [kind |-> "ok", fs |-> F, dirs |-> dirs]
    ELSE addDir(F, visits, k, forceCreate, update, dirs,
                loadOrCreateDirDb(F, visits[k], forceCreate, update))

\* addDir(r) for the k-th visit, and on to the next.
addDir(F, visits, k, forceCreate, update, dirs, r) ==
    IF r.kind # "ok" THEN [kind |-> "error", fs |-> F, dirs |-> dirs]
    ELSE loadDirs(AfterLoad(F, visits[k], r), visits, k + 1, forceCreate, update,
                  Append(dirs, r.data))

processRoots(F, roots, forceCreate, update) ==
    loadDirs(F, VisitList(roots), 1, forceCreate, update, <<>>)

\* fs::path(path).filename(): the bytes after the last separator.
RECURSIVE keyNameForPath(_)
keyNameForPath(path) ==
    IF \E k \in 1..Len(path) : path[k] = 47
    THEN keyNameForPath(Drop(path, CHOOSE k \in 1..Len(path) : path[k] = 47))
    ELSE path

\* The digest of the 16 bytes of base followed by the bytes of name, taken
\* as an injective function of the two: the name is folded into the 32 bits
\* of the lo half that the content hashes of the model leave zero.
RECURSIVE NameSum(_)
NameSum(name) == IF name = <<>> THEN 0 ELSE Head(name) + 251 * NameSum(Tail(name))

hashWithFilename(base, name) ==
    [lo |-> <<base.lo[1], (base.lo[2] + Len(name)) % Limb,
              (base.lo[3] + NameSum(name)) % Limb, base.lo[4]>>,
     hi |-> base.hi]

\* keyHash with the names left out of it under either policy.
keyHashOf_NoName(sameFilename, file) == file.hash

\* keyHash of a file of a loaded directory.
keyHashOf(sameFilename, file) ==
    IF sameFilename THEN hashWithFilename(file.hash, keyNameForPath(file.path)) ELSE file.hash

\* The loaded directories as the grouping loops of MainDb see them under
\* the policy sameFilename: every file with keyHash as its hash.
keyedDirs(dirs, sameFilename) ==
    [k \in 1..Len(dirs) |->
        [path |-> dirs[k].path, dbSize |-> dirs[k].dbSize, hashedBytes |-> dirs[k].hashedBytes,
         files |-> [j \in 1..Len(dirs[k].files) |->
                      [dirs[k].files[j] EXCEPT !.hash = keyHashOf(sameFilename, dirs[k].files[j])]]]]

\* ContentKey{file.size, keyHash} of a file of keyedDirs.
ContentKeyOf(file) == [size |-> file.size, hash |-> file.hash]

\* FileEntry{(dir.path / file.path), size, hash, inode, date, numLinks} for
\* the files of dir.
RefsOf(dir) ==
    [k \in 1..Len(dir.files) |->
        [path |-> PathOf(dir.path, dir.files[k].path), size |-> dir.files[k].size,
         hash |-> dir.files[k].hash, inode |-> dir.files[k].inode,
         date |-> dir.files[k].date, numLinks |-> dir.files[k].numLinks]]

\* The references of the dirs from k on that lie within root.
RECURSIVE RefsWithin(_, _, _)
RefsWithin(dirs, k, root) ==
    IF k > Len(dirs) THEN <<>>
    ELSE (IF isPathWithin(root, dirs[k].path) THEN RefsOf(dirs[k]) ELSE <<>>)
         \o RefsWithin(dirs, k + 1, root)

\* rootFiles of printIntersectStats: per root, the references in push_back
\* order; the map key of a reference is its ContentKeyOf.
rootFilesOf(dirs, rootPaths) ==
    [i \in 1..Len(rootPaths) |-> RefsWithin(dirs, 1, rootPaths[i])]

\* What the system refuses during a run: the data-touching calls named in
\* calls, on the paths in paths.
NoRefusal == [paths |-> {}, calls |-> {}]

RefusedAt(bad, p) == IF p \in bad.paths THEN bad.calls ELSE {}

\* fs::remove(p, ec) with its outcome: a missing p is no error.
removeEc(F, p, refused) ==
    IF refused /\ Exists(F, p) THEN [ok |-> FALSE, fs |-> F]
    ELSE [ok |-> TRUE, fs |-> remove(F, p, FALSE)]

\* updateDirDb on every touched directory that has a sidecar.
RECURSIVE UpdateTouched(_, _)
UpdateTouched(F, touched) ==
    IF touched = {} THEN F
    ELSE LET D == CHOOSE x \in touched : TRUE
             G == IF F.s[D] # NoFile THEN AfterLoad(F, D, updateDirDb(F, D)) ELSE F
         IN  UpdateTouched(G, touched \ {D})

\* The keys of a list of references.
KeysOfRefs(refs) == {ContentKeyOf(refs[k]) : k \in 1..Len(refs)}

\* ContentKey::operator<: size, then hash (hi, then lo).
ContentKeyLess(a, b) ==
    IF a.size # b.size THEN U64Lt(a.size, b.size)
    ELSE IF a.hash.hi # b.hash.hi THEN U64Lt(a.hash.hi, b.hash.hi)
    ELSE U64Lt(a.hash.lo, b.hash.lo)

\* The keys of a std::map<ContentKey, ...> in iteration order.
RECURSIVE KeySeq(_)
KeySeq(K) ==
    IF K = {} THEN <<>>
    ELSE LET m == CHOOSE x \in K : \A y \in K : y = x \/ ContentKeyLess(x, y)
         IN  <<m>> \o KeySeq(K \ {m})

\* The value of firstRoot[key] once the loop has passed the roots: the
\* first root whose map holds the key.
firstRootOf(rootFiles, key) ==
    CHOOSE i \in 1..Len(rootFiles) :
        /\ key \in KeysOfRefs(rootFiles[i])
        /\ \A j \in 1..(i - 1) : key \notin KeysOfRefs(rootFiles[j])

\* The references of root i that the inner loop reaches, for the keys from
\* k on: those whose key was first met in an earlier root.
RECURSIVE copiesInRoot(_, _, _, _)
copiesInRoot(rootFiles, i, keys, k) ==
    IF k > Len(keys) THEN <<>>
    ELSE (IF i > firstRootOf(rootFiles, keys[k])
          THEN SelectSeq(rootFiles[i], LAMBDA f : ContentKeyOf(f) = keys[k])
          ELSE <<>>)
         \o copiesInRoot(rootFiles, i, keys, k + 1)

\* The same for the roots from i on.
RECURSIVE copiesFrom(_, _)
copiesFrom(rootFiles, i) ==
    IF i > Len(rootFiles) THEN <<>>
    ELSE copiesInRoot(rootFiles, i, KeySeq(KeysOfRefs(rootFiles[i])), 1)
         \o copiesFrom(rootFiles, i + 1)

\* removeCopyFiles whose counters are bumped after the dry-run test.
RECURSIVE removeRefs_CountAfterDryRun(_, _, _, _, _)
removeRefs_CountAfterDryRun(st, refs, k, dryRun, bad) ==
    IF k > Len(refs) THEN st
    ELSE IF dryRun
    THEN removeRefs_CountAfterDryRun([st EXCEPT !.removed = @ \cup {refs[k].path}],
                                     refs, k + 1, dryRun, bad)
    ELSE IF ~removeEc(st.fs, refs[k].path, "remove" \in RefusedAt(bad, refs[k].path)).ok
    THEN [st EXCEPT !.kind = "error", !.removed = @ \cup {refs[k].path}]
    ELSE removeRefs_CountAfterDryRun(
             [st EXCEPT !.removed = @ \cup {refs[k].path},
                        !.removedFiles = @ + 1,
                        !.removedBytes = U64Add(@, refs[k].size),
                        !.fs = remove(st.fs, refs[k].path, FALSE),
                        !.touched = @ \cup {refs[k].path.dir}],
             refs, k + 1, dryRun, bad)

\* The body of the innermost loop of removeCopyFiles for the references
\* from k on: announce, count, and unless dryRun remove; a failed remove
\* throws.
RECURSIVE removeRefs(_, _, _, _, _)
removeRefs(st, refs, k, dryRun, bad) ==
    IF k > Len(refs) THEN st
    ELSE IF dryRun
    THEN removeRefs([st EXCEPT !.removed = @ \cup {refs[k].path},
                               !.removedFiles = @ + 1,
                               !.removedBytes = U64Add(@, refs[k].size)],
                    refs, k + 1, dryRun, bad)
    ELSE IF ~removeEc(st.fs, refs[k].path, "remove" \in RefusedAt(bad, refs[k].path)).ok
    THEN [st EXCEPT !.kind = "error", !.removed = @ \cup {refs[k].path},
                    !.removedFiles = @ + 1,
                    !.removedBytes = U64Add(@, refs[k].size)]
    ELSE removeRefs([st EXCEPT !.removed = @ \cup {refs[k].path},
                               !.removedFiles = @ + 1,
                               !.removedBytes = U64Add(@, refs[k].size),
                               !.fs = remove(st.fs, refs[k].path, FALSE),
                               !.touched = @ \cup {refs[k].path.dir}],
                    refs, k + 1, dryRun, bad)

\* The end of removeCopyFiles: the touched directories are re-indexed
\* unless dryRun; an exception skips that.
removeCopyFilesEnd(st, dryRun) ==
    IF st.kind = "ok" /\ ~dryRun THEN [st EXCEPT !.fs = UpdateTouched(st.fs, st.touched)]
    ELSE st

\* removeCopyFiles(rootFiles, dryRun): the paths announced or handed to
\* fs::remove, the two counters, and the file system left behind.
removeCopyFiles(F, rootFiles, dryRun, bad) ==
    removeCopyFilesEnd(
        removeRefs([kind |-> "ok", fs |-> F, removed |-> {}, removedFiles |-> 0,
                    removedBytes |-> U64Of(0), touched |-> {}],
                   copiesFrom(rootFiles, 1), 1, dryRun, bad),
        dryRun)

\* The comparator of std::min_element in hardlinkCopies: date, then path.
OlderRef(a, b) ==
    IF a.date # b.date THEN U64Lt(a.date, b.date) ELSE StrLess(PathStr(a.path), PathStr(b.path))

\* HardlinkStats after one more counted file.
statsPlus(stats, ref) ==
    [createdLinks |-> stats.createdLinks + 1, removedFiles |-> stats.removedFiles + 1,
     removedBytes |-> U64Add(stats.removedBytes, ref.size)]

\* The loop over the files of one group, from ref k on: replaceWithHardlink
\* for each file that is not the oldest and not listed with its inode; with
\* dryRun the file is announced and counted only. The log notes, per call,
\* the links the oldest file has when the call starts.
RECURSIVE linkGroup(_, _, _, _, _, _), linked(_, _, _, _, _, _, _)
linkGroup(st, files, k, oldest, dryRun, bad) ==
    IF k > Len(files) THEN st
    ELSE IF files[k].path = oldest.path \/ files[k].inode = oldest.inode
    THEN linkGroup(st, files, k + 1, oldest, dryRun, bad)
    ELSE IF dryRun
    THEN linkGroup([st EXCEPT !.would = Append(@, [source |-> oldest.path, target |-> files[k].path]),
                              !.stats = statsPlus(@, files[k])],
                   files, k + 1, oldest, dryRun, bad)
    ELSE linked(st, files, k, oldest, dryRun, bad,
                replaceWithHardlink(st.fs, oldest.path, files[k].path,
                                    RefusedAt(bad, files[k].path)))

\* The loop after replaceWithHardlink returned r for file k: a failure is
\* warned about and the loop goes on.
linked(st, files, k, oldest, dryRun, bad, r) ==
    linkGroup([fs |-> r.fs,
               log |-> Append(st.log,
                          [source |-> oldest.path, target |-> files[k].path, ok |-> r.ret,
                           links |-> IF Exists(st.fs, oldest.path)
                                     THEN NLink(st.fs, st.fs.n[oldest.path]) ELSE 0]),
               touched |-> IF r.ret THEN st.touched \cup {oldest.path.dir, files[k].path.dir}
                           ELSE st.touched,
               would |-> st.would,
               stats |-> IF r.ret THEN statsPlus(st.stats, files[k]) ELSE st.stats],
              files, k + 1, oldest, dryRun, bad)

\* The first of the oldest files of a group (std::min_element).
OldestOf(files) ==
    files[CHOOSE i \in 1..Len(files) :
             /\ \A j \in 1..Len(files) : ~OlderRef(files[j], files[i])
             /\ \A j \in 1..(i - 1) : OlderRef(files[i], files[j])]

\* linkCount: the listed link count of the oldest file; unless dryRun its
\* live one, if that can be read.
linkCountOf(F, oldest, dryRun) ==
    IF ~dryRun /\ Exists(F, oldest.path) THEN U64Of(NLink(F, F.n[oldest.path]))
    ELSE oldest.numLinks

\* One group of contentFiles.
linkFiles(st, files, oldest, maxHardlinks, dryRun, bad) ==
    IF ~U64Lt(linkCountOf(st.fs, oldest, dryRun), U64Of(maxHardlinks)) THEN st
    ELSE linkGroup(st, files, 1, oldest, dryRun, bad)

linkKey(st, files, maxHardlinks, dryRun, bad) ==
    IF Len(files) < 2 THEN st
    ELSE linkFiles(st, files, OldestOf(files), maxHardlinks, dryRun, bad)

\* The loop over the groups of contentFiles, from key k on.
RECURSIVE linkGroups(_, _, _, _, _, _, _)
linkGroups(st, all, keys, k, maxHardlinks, dryRun, bad) ==
    IF k > Len(keys) THEN st
    ELSE linkGroups(linkKey(st, SelectSeq(all, LAMBDA f : ContentKeyOf(f) = keys[k]),
                            maxHardlinks, dryRun, bad),
                    all, keys, k + 1, maxHardlinks, dryRun, bad)

\* The end of hardlinkCopies: the touched directories are re-indexed unless
\* dryRun, and the statistics returned.
hardlinked(st, dryRun) ==
    [log |-> st.log, would |-> st.would, stats |-> st.stats,
     fs |-> IF dryRun THEN st.fs ELSE UpdateTouched(st.fs, st.touched)]

contentFilesOf(dirs, minSize) ==
    SelectSeq(RefsWithin(dirs, 1, <<>>), LAMBDA f : ~U64Lt(f.size, U64Of(minSize)))

hardlinkAll(F, all, maxHardlinks, dryRun, bad) ==
    hardlinked(linkGroups([fs |-> F, log |-> <<>>, touched |-> {}, would |-> <<>>,
                           stats |-> [createdLinks |-> 0, removedFiles |-> 0,
                                      removedBytes |-> U64Of(0)]],
                          all, KeySeq(KeysOfRefs(all)), 1, maxHardlinks, dryRun, bad),
               dryRun)

\* hardlinkCopies(minSize, maxHardlinks, dryRun) over the loaded dirs.
hardlinkCopies(F, dirs, minSize, maxHardlinks, dryRun, bad) ==
    hardlinkAll(F, contentFilesOf(dirs, minSize), maxHardlinks, dryRun, bad)

\* ------------------------------------------------------------------------
\* MainDb: intersect statistics, extract, remove-dirdb
\* ------------------------------------------------------------------------
\* rootsWithKey[key]: the number of roots whose map holds the key.
rootsWithKeyOf(rootFiles, key) ==
    Cardinality({i \in 1..Len(rootFiles) : key \in KeysOfRefs(rootFiles[i])})

\* count = listRefs.size() for the key in root i.
countOf(rootFiles, i, key) ==
    Len(SelectSeq(rootFiles[i], LAMBDA f : ContentKeyOf(f) = key))

\* BucketStats after files += count and bytes += count * key.size.
bucketPlus(acc, count, key) ==
    [files |-> acc.files + count, bytes |-> U64Add(acc.bytes, U64MulSmall(key.size, count))]

\* uniqueStats (shared = FALSE) or sharedStats (shared = TRUE) of root i
\* over its keys from k on.
RECURSIVE bucketStats(_, _, _, _, _, _)
bucketStats(rootFiles, i, keys, k, shared, acc) ==
    IF k > Len(keys) THEN acc
    ELSE bucketStats(rootFiles, i, keys, k + 1, shared,
                     IF (rootsWithKeyOf(rootFiles, keys[k]) > 1) = shared
                     THEN bucketPlus(acc, countOf(rootFiles, i, keys[k]), keys[k])
                     ELSE acc)

\* totalFiles of a key: the sizes of its lists in the roots from i on.
RECURSIVE totalFilesOf(_, _, _)
totalFilesOf(rootFiles, i, key) ==
    IF i > Len(rootFiles) THEN 0
    ELSE countOf(rootFiles, i, key) + totalFilesOf(rootFiles, i + 1, key)

\* totalUnique or totalShared over the keys of rootsWithKey from k on.
RECURSIVE totalStats(_, _, _, _, _)
totalStats(rootFiles, keys, k, shared, acc) ==
    IF k > Len(keys) THEN acc
    ELSE totalStats(rootFiles, keys, k + 1, shared,
                    IF (rootsWithKeyOf(rootFiles, keys[k]) > 1) = shared
                    THEN bucketPlus(acc, totalFilesOf(rootFiles, 1, keys[k]), keys[k])
                    ELSE acc)

NoBucket == [files |-> 0, bytes |-> U64Of(0)]

\* The figures printIntersectStats prints: per root and in total.
intersectStats(rootFiles) ==
    [perRoot |->
        [i \in 1..Len(rootFiles) |->
            [unique |-> bucketStats(rootFiles, i, KeySeq(KeysOfRefs(rootFiles[i])), 1, FALSE, NoBucket),
             shared |-> bucketStats(rootFiles, i, KeySeq(KeysOfRefs(rootFiles[i])), 1, TRUE, NoBucket)]],
     total |->
        [unique |-> totalStats(rootFiles,
                        KeySeq(UNION {KeysOfRefs(rootFiles[i]) : i \in 1..Len(rootFiles)}),
                        1, FALSE, NoBucket),
         shared |-> totalStats(rootFiles,
                        KeySeq(UNION {KeysOfRefs(rootFiles[i]) : i \in 1..Len(rootFiles)}),
                        1, TRUE, NoBucket)]]

\* The destination of an extraction lies outside the indexed tree: /X. A
\* file system that takes extractions has a fourth part
\*   x : [dirs : the directories that exist outside DirSet,
\*        files : [existing files there -> content]].
CompX == <<88>>
DirX == <<CompX>>

NoDest == [dirs |-> {}, files |-> [p \in {} |-> 0]]

\* fs::exists on a directory path.
DirExists(F, D) == D \in DirSet \/ D \in F.x.dirs

\* fs::create_directories(D)
create_directories(F, D) ==
    [F EXCEPT !.x.dirs = @ \cup ({Take(D, k) : k \in 1..Len(D)} \ DirSet)]

\* copy_file with fs::copy_options::overwrite_existing.
copy_file_Overwrite(F, src, dest, refused) ==
    IF refused \/ ~Exists(F, src) THEN [ok |-> FALSE, fs |-> F]
    ELSE [ok |-> TRUE,
          fs |-> [F EXCEPT !.x.files = (dest :> F.i[F.n[src]].content) @@ @]]

\* fs::copy_file(src, dest, fs::copy_options::none, ec): an existing dest
\* is an error.
copy_file(F, src, dest, refused) ==
    IF refused \/ ~Exists(F, src) \/ dest \in DOMAIN F.x.files \/ Exists(F, dest)
    THEN [ok |-> FALSE, fs |-> F]
    ELSE [ok |-> TRUE,
          fs |-> [F EXCEPT !.x.files = (dest :> F.i[F.n[src]].content) @@ @]]

\* destRoot / fs::relative(srcPath, rootSrc)
destPathOf(src, rootSrc, destRoot) ==
    PathOf(destRoot \o Drop(src.dir, Len(rootSrc)), src.name)

\* The references the loops of copyIntersectFiles reach, for the keys of
\* filesSrc from k on: those whose key filesOther does not hold.
RECURSIVE onlyInSrc(_, _, _, _)
onlyInSrc(filesSrc, filesOther, keys, k) ==
    IF k > Len(keys) THEN <<>>
    ELSE (IF keys[k] \in KeysOfRefs(filesOther) THEN <<>>
          ELSE SelectSeq(filesSrc, LAMBDA f : ContentKeyOf(f) = keys[k]))
         \o onlyInSrc(filesSrc, filesOther, keys, k + 1)

\* The inner loop of copyIntersectFiles from reference k on; a failed copy
\* throws.
RECURSIVE copyRefs(_, _, _, _, _, _, _), copied(_, _, _, _, _, _, _, _)
copyRefs(st, refs, k, rootSrc, destRoot, dryRun, bad) ==
    IF k > Len(refs) THEN st
    ELSE IF dryRun
    THEN copyRefs([st EXCEPT !.would = Append(@, [source |-> refs[k].path,
                                 target |-> destPathOf(refs[k].path, rootSrc, destRoot)])],
                  refs, k + 1, rootSrc, destRoot, dryRun, bad)
    ELSE copied(st, refs, k, rootSrc, destRoot, dryRun, bad,
                copy_file(create_directories(st.fs, destPathOf(refs[k].path, rootSrc, destRoot).dir),
                          refs[k].path, destPathOf(refs[k].path, rootSrc, destRoot),
                          "copy" \in RefusedAt(bad, refs[k].path)))

\* The loop after copy_file returned r for reference k.
copied(st, refs, k, rootSrc, destRoot, dryRun, bad, r) ==
    IF ~r.ok THEN [st EXCEPT !.kind = "error", !.fs = r.fs,
                             !.failed = destPathOf(refs[k].path, rootSrc, destRoot)]
    ELSE copyRefs([st EXCEPT !.fs = r.fs,
                             !.copied = Append(@, [source |-> refs[k].path,
                                  target |-> destPathOf(refs[k].path, rootSrc, destRoot)])],
                  refs, k + 1, rootSrc, destRoot, dryRun, bad)

\* Files another program puts into the fresh destination root.
Strayed(F, stray) ==
    [F EXCEPT !.x.files = [p \in stray |-> 0] @@ @]

NoCopy == [kind |-> "ok", would |-> <<>>, copied |-> <<>>, failed |-> <<>>]

\* copyIntersectFiles that creates the destination root before it tests
\* dryRun.
copyIntersectFiles_CreatesDest(F, rootSrc, destRoot, filesSrc, filesOther, dryRun, stray, bad) ==
    IF DirExists(F, destRoot)
    THEN [kind |-> "error", fs |-> F, would |-> <<>>, copied |-> <<>>, failed |-> <<>>]
    ELSE copyRefs([fs |-> Strayed(create_directories(F, destRoot), stray)] @@ NoCopy,
                  onlyInSrc(filesSrc, filesOther, KeySeq(KeysOfRefs(filesSrc)), 1),
                  1, rootSrc, destRoot, dryRun, bad)

\* copyIntersectFiles(rootSrc, destRoot, filesSrc, filesOther, dryRun)
copyIntersectFiles(F, rootSrc, destRoot, filesSrc, filesOther, dryRun, stray, bad) ==
    IF DirExists(F, destRoot)
    THEN [kind |-> "error", fs |-> F, would |-> <<>>, copied |-> <<>>, failed |-> <<>>]
    ELSE copyRefs([fs |-> IF dryRun THEN F ELSE Strayed(create_directories(F, destRoot), stray)]
                     @@ NoCopy,
                  onlyInSrc(filesSrc, filesOther, KeySeq(KeysOfRefs(filesSrc)), 1),
                  1, rootSrc, destRoot, dryRun, bad)

\* removeIfExists for the directories of the walk from k on; a failed
\* remove throws.
RECURSIVE removeDirDbs(_, _, _, _, _)
removeDirDbs(st, visits, k, dryRun, bad) ==
    IF k > Len(visits) \/ st.kind # "ok" THEN st
    ELSE IF st.fs.s[visits[k]] = NoFile THEN removeDirDbs(st, visits, k + 1, dryRun, bad)
    ELSE IF dryRun
    THEN removeDirDbs([st EXCEPT !.removed = @ \cup {PathOf(visits[k], DotDirDb)}],
                      visits, k + 1, dryRun, bad)
    ELSE IF "remove" \in RefusedAt(bad, PathOf(visits[k], DotDirDb))
    THEN [st EXCEPT !.kind = "error"]
    ELSE removeDirDbs([st EXCEPT !.removed = @ \cup {PathOf(visits[k], DotDirDb)},
                                 !.fs = [@ EXCEPT !.s[visits[k]] = NoFile]],
                      visits, k + 1, dryRun, bad)

\* removeDirDbTree(root, dryRun), continuing from the state st.
removeDirDbTree(st, root, dryRun, bad) == removeDirDbs(st, VisitsOf(root), 1, dryRun, bad)

\* The loop of main over the directories given, from the k-th on.
RECURSIVE removeDirDbTrees(_, _, _, _, _)
removeDirDbTrees(st, roots, k, dryRun, bad) ==
    IF k > Len(roots) \/ st.kind # "ok" THEN st
    ELSE removeDirDbTrees(removeDirDbTree(st, roots[k], dryRun, bad), roots, k + 1, dryRun, bad)

\* ------------------------------------------------------------------------
\* Dedup runs: one run of the program over a list of roots: processRoots,
\* then --hardlink-copies or --intersect --remove-copies.
\* ------------------------------------------------------------------------
\* /A/a, /A/s/a, /B/a and /B/m on inodes 1..4; c[k] is the content of the
\* k-th of them, 0 if it is absent. /B/a and /B/m are the oldest.
DedupSlots == <<PathOf(DirA, NameA), PathOf(DirAS, NameA), PathOf(DirB, NameA), PathOf(DirB, NameM)>>

DedupFs(c) ==
    [n |-> [p \in {DedupSlots[k] : k \in {h \in 1..4 : c[h] # 0}} |->
              CHOOSE k \in 1..4 : DedupSlots[k] = p],
     i |-> [k \in 1..MaxIno |->
              IF k <= 4 /\ c[k] # 0 THEN Inode("reg", c[k], IF k <= 2 THEN 13 - k ELSE 10, 0, 0)
              ELSE FreeInode],
     s |-> [D \in DirSet |-> NoFile]]

RECURSIVE RootLists(_)
RootLists(n) ==
    IF n = 0 THEN {<<>>}
    ELSE RootLists(n - 1) \cup {Append(r, D) : r \in {x \in RootLists(n - 1) : Len(x) = n - 1}, D \in DirSet}

DedupInit ==
    /\ CodecIdle /\ IndexIdle /\ LinkIdle /\ CalcIdle
    /\ ded = NoDedup
    /\ fs \in {DedupFs(c) : c \in [1..4 -> {0, 1, 3}]}

DedupOnly == UNCHANGED <<cvars, ivars, link, calc>>

DedupLoaded(roots, mode, sameFilename, r) ==
    /\ fs' = r.fs
    /\ ded' = [pc |-> IF r.kind = "ok" THEN "loaded" ELSE "failed",
               roots |-> roots, mode |-> mode, sameFilename |-> sameFilename,
               dirs |-> keyedDirs(r.dirs, sameFilename)]

DedupLinked(minSize, maxHardlinks, r) ==
    /\ fs' = r.fs
    /\ ded' = [pc |-> "linked", before |-> fs, minSize |-> minSize,
               maxHardlinks |-> maxHardlinks, log |-> r.log] @@ ded

DedupRemoved(r) ==
    /\ fs' = r.fs
    /\ ded' = [pc |-> "removed", before |-> fs, removed |-> r.removed] @@ ded

\* MainDb(roots, same-filename) and processRoots(new-dirdb, update-dirdb)
\* over the roots given.
DedupLoad ==
    /\ ded.pc = "none"
    /\ \E roots \in RootLists(MaxRoots) \ {<<>>}, mode \in {"read", "force", "update"},
          sameFilename \in BOOLEAN :
          DedupLoaded(roots, mode, sameFilename,
                      processRoots(fs, roots, mode = "force", mode = "update"))
    /\ DedupOnly

\* --hardlink-copies
DedupHardlink ==
    /\ ded.pc = "loaded"
    /\ \E minSize \in {0, 2}, maxHardlinks \in 1..MaxLinks :
          DedupLinked(minSize, maxHardlinks,
                      hardlinkCopies(fs, ded.dirs, minSize, maxHardlinks, FALSE, NoRefusal))
    /\ DedupOnly

\* --intersect --remove-copies
DedupRemove ==
    /\ ded.pc = "loaded"
    /\ Len(ded.roots) >= 2
    /\ DedupRemoved(removeCopyFiles(fs, rootFilesOf(ded.dirs, ded.roots), FALSE, NoRefusal))
    /\ DedupOnly

DedupNext ==
    \/ DedupLoad
    \/ DedupHardlink
    \/ DedupRemove

SpecDedup == DedupInit /\ [][DedupNext]_vars

\* The references the program holds after processRoots.
LoadedRefs == {RefsWithin(ded.dirs, 1, <<>>)[k] : k \in 1..Len(RefsWithin(ded.dirs, 1, <<>>))}

\* The roots (by position) that hold a file with the key.
RootsWithKey(key) ==
    {i \in 1..Len(ded.roots) :
        \E f \in LoadedRefs : ContentKeyOf(f) = key /\ isPathWithin(ded.roots[i], f.path.dir)}

FirstRootWithKey(key) ==
    CHOOSE i \in RootsWithKey(key) : \A j \in RootsWithKey(key) : i <= j

\* ------------------------------------------------------------------------
\* C2  remove-copies, for any ordered list of roots: for each ContentKey, no
\*     file within the first root that holds the key is deleted, every file
\*     with the key in every later root is deleted, and files whose key
\*     occurs in one root only are untouched.
\* ------------------------------------------------------------------------
C2_FirstRootWins ==
    ded.pc = "removed" =>
        \A f \in LoadedRefs :
            LET key == ContentKeyOf(f)
                first == FirstRootWithKey(key)
            IN  /\ isPathWithin(ded.roots[first], f.path.dir) => Exists(fs, f.path)
                /\ (\E i \in RootsWithKey(key) : i > first /\ isPathWithin(ded.roots[i], f.path.dir)) =>
                      ~Exists(fs, f.path)
                /\ Cardinality(RootsWithKey(key)) = 1 =>
                      /\ Exists(fs, f.path)
                      /\ fs.n[f.path] = ded.before.n[f.path]

\* ------------------------------------------------------------------------
\* C10 hardlink-copies never creates a new hard link to a target whose link
\*     count is already >= maxHardlinks at the moment the link is created.
\* ------------------------------------------------------------------------
C10_MaxHardlinksRespected ==
    ded.pc = "linked" =>
        \A k \in 1..Len(ded.log) :
            ded.log[k].ok => ded.log[k].links < ded.maxHardlinks

\* ------------------------------------------------------------------------
\* main: the checks of the command line and the order of the operations
\* ------------------------------------------------------------------------
\* The command line: one flag per option group that main tests. list
\* stands for --list-a, --list-b and --list-both, which main tests together;
\* dest is the directory given to --extract-a or --extract-b.
MainFlags ==
    {"newDirdb", "updateDirdb", "intersect", "list", "removeCopies", "dryRun",
     "hardlinkCopies", "readbench", "removeDirdb"}

\* Command lines with up to MaxOptions options are tried.
MaxOptions == 4

OptionsOf(given, extract, dest) ==
    [newDirdb |-> "newDirdb" \in given, updateDirdb |-> "updateDirdb" \in given,
     intersect |-> "intersect" \in given, list |-> "list" \in given,
     removeCopies |-> "removeCopies" \in given, dryRun |-> "dryRun" \in given,
     hardlinkCopies |-> "hardlinkCopies" \in given, readbench |-> "readbench" \in given,
     removeDirdb |-> "removeDirdb" \in given, extract |-> extract, dest |-> dest]

MainOptions ==
    {OptionsOf(given, "none", DirX) :
        given \in {g \in SUBSET MainFlags : Cardinality(g) <= MaxOptions}}
    \cup {OptionsOf(given, extract, dest) :
             given \in {g \in SUBSET MainFlags : Cardinality(g) < MaxOptions},
             extract \in {"a", "b"}, dest \in {DirX, DirB}}

\* The checks before the first operation: the error raised, or "none".
usageErrorOf(roots, o) ==
    IF roots = <<>> THEN "Please specify at least one directory."
    ELSE IF o.newDirdb /\ o.updateDirdb THEN "Cannot combine --new-dirdb with --update-dirdb."
    ELSE IF o.list /\ ~o.intersect THEN "--list-a/--list-b/--list-both require --intersect."
    ELSE IF o.extract # "none" /\ ~o.intersect THEN "--extract-a/--extract-b require --intersect."
    ELSE IF o.removeCopies /\ ~o.intersect THEN "--remove-copies requires --intersect."
    ELSE IF o.dryRun /\ ~(o.removeCopies \/ o.extract # "none" \/ o.removeDirdb \/ o.hardlinkCopies)
    THEN "--dry-run requires --remove-copies, --extract-a/--extract-b, --remove-dirdb, or --hardlink-copies."
    ELSE "none"

\* otherOps of the --readbench branch.
otherOps(o) ==
    \/ o.removeDirdb \/ o.intersect \/ o.updateDirdb \/ o.list \/ o.extract # "none"
    \/ o.removeCopies \/ o.hardlinkCopies \/ o.newDirdb

\* The checks of the --intersect branch, made after processRoots and
\* hardlinkCopies.
intersectErrorOf(roots, o) ==
    IF Len(roots) < 2 THEN "--intersect requires at least two directories."
    ELSE IF (o.list \/ o.extract # "none") /\ Len(roots) # 2
    THEN "--list-a/--list-b/--list-both/--extract-a/--extract-b require exactly two directories."
    ELSE "none"

\* The contents of /A/a, /A/s/a, /B/a and /B/m in the trees the program is
\* run on (0: the file is absent).
MainContents == { <<1, 1, 1, 1>>, <<1, 3, 1, 0>>, <<1, 3, 1, 3>> }

MainFs(c) == [x |-> NoDest] @@ DedupFs(c)

\* The tree as it is, or as an earlier run over /A and /B left it: with a
\* sidecar in every directory.
MainInit ==
    /\ CodecIdle /\ IndexIdle /\ LinkIdle /\ CalcIdle
    /\ ded = NoDedup
    /\ \E c \in MainContents :
       \E indexed \in (IF c[4] = 0 THEN BOOLEAN ELSE {FALSE}) :
          fs = IF indexed THEN processRoots(MainFs(c), <<DirA, DirB>>, TRUE, FALSE).fs
               ELSE MainFs(c)

\* What the system may refuse in a run that changes files: nothing, or
\* hard-link creation, remove and copy on /A/a, /B/a and the sidecar of /A,
\* or both renames of a temporary link onto /A/a.
MainRefusals(mutating) ==
    {NoRefusal}
    \cup (IF ~mutating THEN {}
          ELSE {[paths |-> {PathOf(DirA, NameA), PathOf(DirB, NameA), PathOf(DirA, DotDirDb)},
                 calls |-> {"link", "remove", "copy"}],
                [paths |-> {PathOf(DirA, NameA)}, calls |-> {"rename", "retry"}]})

\* The --min-size and --max-hardlinks given: the defaults (no minimum, a
\* maximum out of reach), a minimum of 2 bytes, or a maximum within reach.
MainSizes == {<<0, MaxLinks + 6>>, <<2, MaxLinks + 6>>, <<0, MaxLinks - 1>>}

\* main up to the first operation: the command line is parsed and checked.
MainParse ==
    /\ ded.pc = "none"
    /\ \E roots \in RootLists(MaxRoots), o \in MainOptions :
          ded' = IF usageErrorOf(roots, o) # "none"
                 THEN [pc |-> "usage", err |-> usageErrorOf(roots, o), start |-> fs, inv |-> 1]
                 ELSE [pc |-> "checked", err |-> "none", roots |-> roots, opts |-> o,
                       start |-> fs, inv |-> 1]
    /\ UNCHANGED fs
    /\ DedupOnly

MainDirDbRemoved(bad, r) ==
    /\ fs' = r.fs
    /\ ded' = [pc |-> IF r.kind = "ok" THEN "done" ELSE "failed", bad |-> bad,
               dbRemoved |-> r.removed] @@ ded

\* --remove-dirdb: removeDirDbTree for every directory given, and nothing
\* else.
MainRemoveDirDb ==
    /\ ded.pc = "checked"
    /\ ded.opts.removeDirdb
    /\ \E bad \in MainRefusals(~ded.opts.dryRun) :
          MainDirDbRemoved(bad,
              removeDirDbTrees([kind |-> "ok", fs |-> fs, removed |-> {}], ded.roots, 1,
                               ded.opts.dryRun, bad))
    /\ DedupOnly

\* --readbench: refused with other operations, else the files are read.
MainReadBench ==
    /\ ded.pc = "checked"
    /\ ~ded.opts.removeDirdb
    /\ ded.opts.readbench
    /\ ded' = [pc |-> IF otherOps(ded.opts) THEN "usage" ELSE "done",
               err |-> IF otherOps(ded.opts)
                       THEN "--readbench cannot be combined with other operations."
                       ELSE "none"] @@ ded
    /\ UNCHANGED fs
    /\ DedupOnly

MainLoaded(r) ==
    /\ fs' = r.fs
    /\ ded' = [pc |-> IF r.kind = "ok" THEN "loaded" ELSE "failed",
               dirs |-> r.dirs, loaded |-> r.fs] @@ ded

\* mainDb.processRoots(new-dirdb, update-dirdb)
MainLoad ==
    /\ ded.pc = "checked"
    /\ ~ded.opts.removeDirdb
    /\ ~ded.opts.readbench
    /\ MainLoaded(processRoots(fs, ded.roots, ded.opts.newDirdb, ded.opts.updateDirdb))
    /\ DedupOnly

MainLinked(minSize, maxHardlinks, bad, r) ==
    /\ fs' = r.fs
    /\ ded' = [pc |-> "linked", minSize |-> minSize, maxHardlinks |-> maxHardlinks,
               linkBad |-> bad, linkBefore |-> fs, log |-> r.log, would |-> r.would,
               stats |-> r.stats] @@ ded

\* --hardlink-copies; a repeated run is given the same sizes.
MainHardlink ==
    /\ ded.pc = "loaded"
    /\ ded.opts.hardlinkCopies
    /\ \E z \in (IF ded.inv = 1 THEN MainSizes ELSE {<<ded.dry.minSize, ded.dry.maxHardlinks>>}),
          bad \in MainRefusals(~ded.opts.dryRun) :
          MainLinked(z[1], z[2], bad,
                     hardlinkCopies(fs, ded.dirs, z[1], z[2], ded.opts.dryRun, bad))
    /\ DedupOnly

\* printIntersectStats from the extraction on: cp is what copyIntersectFiles
\* did.
MainExtracted(bad, stray, rm, st, cp) ==
    /\ fs' = cp.fs
    /\ ded' = [pc |-> IF cp.kind = "ok" THEN "done" ELSE "failed",
               err |-> "none", bad |-> bad, stray |-> stray, interBefore |-> fs,
               removed |-> rm.removed, removedFiles |-> rm.removedFiles,
               removedBytes |-> rm.removedBytes, removeKind |-> rm.kind,
               figures |-> st, copyBefore |-> rm.fs, copyKind |-> cp.kind,
               copied |-> cp.copied, wouldCopy |-> cp.would] @@ ded

\* printIntersectStats after removeCopyFiles returned or threw rm: the
\* figures, then the extraction asked for.
MainRemoved(rootFiles, bad, stray, rm) ==
    IF rm.kind # "ok"
    THEN MainExtracted(bad, stray, rm, <<>>, [fs |-> rm.fs] @@ [NoCopy EXCEPT !.kind = "skipped"])
    ELSE IF ded.opts.extract = "a"
    THEN MainExtracted(bad, stray, rm, intersectStats(rootFiles),
             copyIntersectFiles(rm.fs, ded.roots[1], ded.opts.dest, rootFiles[1], rootFiles[2],
                                ded.opts.dryRun, stray, bad))
    ELSE IF ded.opts.extract = "b"
    THEN MainExtracted(bad, stray, rm, intersectStats(rootFiles),
             copyIntersectFiles(rm.fs, ded.roots[2], ded.opts.dest, rootFiles[2], rootFiles[1],
                                ded.opts.dryRun, stray, bad))
    ELSE MainExtracted(bad, stray, rm, intersectStats(rootFiles),
                       [fs |-> rm.fs] @@ [NoCopy EXCEPT !.kind = "ok"])

\* printIntersectStats(roots, ..., removeCopies, dryRun)
MainIntersected(rootFiles, bad, stray) ==
    MainRemoved(rootFiles, bad, stray,
        IF ded.opts.removeCopies THEN removeCopyFiles(fs, rootFiles, ded.opts.dryRun, bad)
        ELSE [kind |-> "ok", fs |-> fs, removed |-> {}, removedFiles |-> 0,
              removedBytes |-> U64Of(0), touched |-> {}])

\* The --intersect branch of main: its two checks, then printIntersectStats.
MainIntersect ==
    /\ ded.pc \in {"loaded", "linked"}
    /\ ded.opts.hardlinkCopies => ded.pc = "linked"
    /\ ded.opts.intersect
    /\ IF intersectErrorOf(ded.roots, ded.opts) # "none"
       THEN /\ ded' = [pc |-> "usage", err |-> intersectErrorOf(ded.roots, ded.opts)] @@ ded
            /\ UNCHANGED fs
       ELSE \E bad \in MainRefusals(~ded.opts.dryRun
                                    /\ (ded.opts.removeCopies \/ ded.opts.extract # "none")),
               stray \in (IF ded.opts.extract # "none" /\ ~ded.opts.dryRun
                          THEN SUBSET {PathOf(DirX, NameA)} ELSE {{}}) :
               MainIntersected(rootFilesOf(ded.dirs, ded.roots), bad, stray)
    /\ DedupOnly

\* The other branch: --stats, --size-histogram, --list-files and
\* --get-unique-hash-len print and change nothing.
MainReport ==
    /\ ded.pc \in {"loaded", "linked"}
    /\ ded.opts.hardlinkCopies => ded.pc = "linked"
    /\ ~ded.opts.intersect
    /\ ded' = [pc |-> "done"] @@ ded
    /\ UNCHANGED fs
    /\ DedupOnly

\* After a dry run that ended well the user gives the same command line
\* without --dry-run.
MainRepeat ==
    /\ ded.pc = "done"
    /\ ded.inv = 1
    /\ ded.opts.dryRun
    /\ ded' = [pc |-> "checked", err |-> "none", roots |-> ded.roots,
               opts |-> [ded.opts EXCEPT !.dryRun = FALSE], start |-> fs, inv |-> 2,
               dry |-> ded]
    /\ UNCHANGED fs
    /\ DedupOnly

MainNext ==
    \/ MainParse
    \/ MainRemoveDirDb
    \/ MainReadBench
    \/ MainLoad
    \/ MainHardlink
    \/ MainIntersect
    \/ MainReport
    \/ MainRepeat

SpecMain == MainInit /\ [][MainNext]_vars

\* The regular files within the roots of the run, in file system F.
FilesUnder(F, roots) ==
    {p \in DOMAIN F.n :
        /\ F.i[F.n[p]].kind = "reg"
        /\ p.dir \in DirSet
        /\ \E i \in 1..Len(roots) : isPathWithin(roots[i], p.dir)}

ContentAt(F, p) == F.i[F.n[p]].content

SizeAt(F, p) == ContentSize(ContentAt(F, p))

DateAt(F, p) == fileTimeFromTimespec(F.i[F.n[p]].mtime)

\* The files of S with the content of p: its ContentKey group.
GroupIn(F, S, p) == {q \in S : ContentAt(F, q) = ContentAt(F, p)}

\* The member of group G with the smallest date, ties broken by the
\* lexicographically smallest full path.
TargetIn(F, G) ==
    CHOOSE t \in G :
        \A q \in G \ {t} :
            \/ U64Lt(DateAt(F, t), DateAt(F, q))
            \/ DateAt(F, t) = DateAt(F, q) /\ StrLess(PathStr(t), PathStr(q))

RECURSIVE SizeSum(_, _)
SizeSum(F, S) ==
    IF S = {} THEN 0
    ELSE LET p == CHOOSE x \in S : TRUE IN SizeAt(F, p) + SizeSum(F, S \ {p})

\* The files whose name leads to another inode after the operation.
ReplacedFiles(before, after, S) ==
    {p \in S : Exists(after, p) /\ after.n[p] # before.n[p]}

\* What C11 asks of hardlinkCopies run on the files S of `before`.
C11_Linked(before, after, S, minSize, stats) ==
    /\ \A p \in S :
          IF SizeAt(before, p) >= minSize /\ Cardinality(GroupIn(before, S, p)) >= 2
          THEN IF before.n[p] = before.n[TargetIn(before, GroupIn(before, S, p))]
               THEN Exists(after, p) /\ after.n[p] = before.n[p]
               ELSE /\ Exists(after, p)
                    /\ after.n[p] = before.n[TargetIn(before, GroupIn(before, S, p))]
          ELSE Exists(after, p) /\ after.n[p] = before.n[p]
    /\ stats.createdLinks = Cardinality(ReplacedFiles(before, after, S))
    /\ stats.removedFiles = Cardinality(ReplacedFiles(before, after, S))
    /\ stats.removedBytes = U64Of(SizeSum(before, ReplacedFiles(before, after, S)))

\* ------------------------------------------------------------------------
\* C11 hardlinkCopies (not a dry run, nothing refused by the system, no
\*     target near maxHardlinks): in every ContentKey group of at least two
\*     files of size >= minSize the target is the file with the smallest
\*     date (ties: smallest full path); every other member on another inode
\*     is replaced by a hard link to the target, members on the target's
\*     inode are untouched, files below minSize or in groups of one are
\*     untouched; createdLinks and removedFiles are the number of replaced
\*     files and removedBytes is the sum of their sizes.
\* ------------------------------------------------------------------------
C11_HardlinkGroups ==
    (/\ ded.pc = "linked"
     /\ ~ded.opts.dryRun
     /\ ded.linkBad = NoRefusal
     /\ ded.maxHardlinks > MaxLinks) =>
        C11_Linked(ded.linkBefore, fs, FilesUnder(ded.linkBefore, ded.roots),
                   ded.minSize, ded.stats)

\* The run under way repeats, without --dry-run, a dry run that came to
\* removeCopyFiles, and has come to its end.
RepeatedRemove ==
    /\ ded.pc = "done"
    /\ ded.inv = 2
    /\ ded.opts.removeCopies
    /\ ~ded.opts.removeDirdb

\* hardlink-copies of the same command line, if it ran, left every name in
\* place: no target was removed by a replaceWithHardlink whose renames the
\* system refused (treeop.cpp:1364-1392).
LinkKeptNames ==
    ("linkBefore" \in DOMAIN ded /\ "interBefore" \in DOMAIN ded) =>
        \A p \in DOMAIN ded.linkBefore.n : Exists(ded.interBefore, p)

\* The files that were there when the run began and are gone.
DeletedSince(before, after) == {p \in DOMAIN before.n : ~Exists(after, p)}

\* ------------------------------------------------------------------------
\* C12 remove-copies with --dry-run followed, on the unchanged trees and
\*     with the same roots, by remove-copies without it: the paths the dry
\*     run announced are exactly the files the second run deleted, and both
\*     runs report the same removedFiles and removedBytes.
\* ------------------------------------------------------------------------
C12_DryRunFidelity ==
    (RepeatedRemove /\ LinkKeptNames) =>
        /\ ded.dry.removed = DeletedSince(ded.start, fs)
        /\ ded.dry.removedFiles = ded.removedFiles
        /\ ded.dry.removedBytes = ded.removedBytes

C12_Witness ==
    /\ RepeatedRemove
    /\ ded.dry.removed # {}
    /\ ded.dry.removed = DeletedSince(ded.start, fs)
    /\ ded.removedFiles >= 2
    /\ ded.dry.start.s[DirB] = NoFile

\* A dry run has come past one of its mutators.
DryRunActed ==
    /\ ded.pc \in {"linked", "done", "failed"}
    /\ ded.opts.dryRun

\* ------------------------------------------------------------------------
\* C13 With dry-run set the mutators change nothing: after
\*     removeDirDbTree the file system is the one the run started on; after
\*     hardlinkCopies it is the one hardlinkCopies was called on (no link,
\*     no temporary file, no sidecar rewritten); after removeCopyFiles and
\*     copyIntersectFiles it is the one printIntersectStats was called on
\*     (no file deleted, no sidecar rewritten, no destination directory, no
\*     copy).
\* ------------------------------------------------------------------------
C13_DryRunChangesNothing ==
    DryRunActed =>
        /\ ded.opts.removeDirdb => fs = ded.start
        /\ (~ded.opts.removeDirdb /\ ded.pc = "linked") => fs = ded.linkBefore
        /\ (~ded.opts.removeDirdb /\ "interBefore" \in DOMAIN ded) => fs = ded.interBefore
        /\ (~ded.opts.removeDirdb /\ "interBefore" \in DOMAIN ded /\ ded.opts.hardlinkCopies) =>
               ded.interBefore = ded.linkBefore

\* A dry run that announced a removal and a copy and changed nothing.
C13_Witness ==
    /\ DryRunActed
    /\ ded.pc = "done"
    /\ "interBefore" \in DOMAIN ded
    /\ ded.removed # {}
    /\ ded.wouldCopy # <<>>
    /\ fs = ded.interBefore

\* A dry run of hardlinkCopies that announced a link and changed nothing.
C13_WitnessLink ==
    /\ DryRunActed
    /\ ded.pc = "linked"
    /\ ded.would # <<>>
    /\ fs = ded.linkBefore

\* A dry run of --remove-dirdb that announced a sidecar and changed nothing.
C13_WitnessDirDb ==
    /\ DryRunActed
    /\ ded.opts.removeDirdb
    /\ ded.dbRemoved # {}
    /\ fs = ded.start

\* ------------------------------------------------------------------------
\* Calculations: the hash column of the listings and path containment
\* ------------------------------------------------------------------------
\* a ^ b on n-bit values.
RECURSIVE BitXor(_, _, _)
BitXor(a, b, n) ==
    IF n = 0 THEN 0
    ELSE (((a % 2) + (b % 2)) % 2) + 2 * BitXor(a \div 2, b \div 2, n - 1)

\* a ^ b on uint64_t.
U64Xor(a, b) == [k \in 1..4 |-> BitXor(a[k], b[k], 16)]

\* std::countl_zero on a 16-bit limb that is not 0.
RECURSIVE Clz16(_)
Clz16(x) == IF x >= 32768 THEN 0 ELSE 1 + Clz16(2 * x)

\* std::countl_zero on uint64_t; 64 for 0.
countl_zero(a) ==
    IF a[4] # 0 THEN Clz16(a[4])
    ELSE IF a[3] # 0 THEN 16 + Clz16(a[3])
    ELSE IF a[2] # 0 THEN 32 + Clz16(a[2])
    ELSE IF a[1] # 0 THEN 48 + Clz16(a[1])
    ELSE 64

\* Hash128::operator<
Hash128Less(a, b) == IF a.hi # b.hi THEN U64Lt(a.hi, b.hi) ELSE U64Lt(a.lo, b.lo)

\* std::sort of a vector of Hash128.
RECURSIVE InsertHash(_, _), SortHashes(_)
InsertHash(h, sorted) ==
    IF sorted = <<>> THEN <<h>>
    ELSE IF Hash128Less(h, Head(sorted)) THEN <<h>> \o sorted
    ELSE <<Head(sorted)>> \o InsertHash(h, Tail(sorted))

SortHashes(hashes) ==
    IF hashes = <<>> THEN <<>> ELSE InsertHash(Head(hashes), SortHashes(Tail(hashes)))

\* hashes.erase(std::unique(...), hashes.end()): of each run of equal
\* neighbours the first is kept.
RECURSIVE UniqueHashes(_)
UniqueHashes(hashes) ==
    IF Len(hashes) <= 1 THEN hashes
    ELSE IF hashes[1] = hashes[2] THEN UniqueHashes(Tail(hashes))
    ELSE <<hashes[1]>> \o UniqueHashes(Tail(hashes))

\* common of the loop body for hashes[i] and hashes[i - 1].
commonOf(a, b) ==
    IF U64Xor(a.hi, b.hi) = U64Of(0) THEN 64 + countl_zero(U64Xor(a.lo, b.lo))
    ELSE countl_zero(U64Xor(a.hi, b.hi))

\* maxCommonPrefix after the loop from i on.
RECURSIVE maxCommonPrefixOf(_, _, _)
maxCommonPrefixOf(hashes, i, acc) ==
    IF i > Len(hashes) THEN acc
    ELSE maxCommonPrefixOf(hashes, i + 1,
             IF commonOf(hashes[i], hashes[i - 1]) > acc
             THEN commonOf(hashes[i], hashes[i - 1]) ELSE acc)

MinOf(a, b) == IF a < b THEN a ELSE b

\* The function from the second size test on, on the sorted and
\* deduplicated vector.
minUniqueBitsOf(hashes) ==
    IF Len(hashes) <= 1 THEN 0
    ELSE MinOf(128, maxCommonPrefixOf(hashes, 2, 0) + 1)

\* getMinUniqueHashBits that compares the neighbours of the vector as given.
getMinUniqueHashBits_Unsorted(hashes) ==
    IF Len(hashes) <= 1 THEN 0 ELSE minUniqueBitsOf(UniqueHashes(hashes))

\* getMinUniqueHashBits(hashes)
getMinUniqueHashBits(hashes) ==
    IF Len(hashes) <= 1 THEN 0 ELSE minUniqueBitsOf(UniqueHashes(SortHashes(hashes)))

\* getUniqueHashHexLen, on the hashes of all loaded files.
getUniqueHashHexLen(hashes) ==
    IF (getMinUniqueHashBits(hashes) + 3) \div 4 < 4 THEN 4
    ELSE IF (getMinUniqueHashBits(hashes) + 3) \div 4 > 32 THEN 32
    ELSE (getMinUniqueHashBits(hashes) + 3) \div 4

\* One digit of std::hex output.
HexDigit(d) == IF d < 10 THEN 48 + d ELSE 87 + d

\* os << std::hex << std::setw(16) << std::setfill('0') << u
Hex16(u) ==
    [k \in 1..16 |->
        HexDigit((u[4 - ((k - 1) \div 4)] \div (16 ^ (3 - ((k - 1) % 4)))) % 16)]

\* Hash128::toHex: lo, then hi.
toHex(h) == Hex16(h.lo) \o Hex16(h.hi)

\* row.hash of printListRows.
rowHash(h, hashLen) == Take(toHex(h), MinOf(hashLen, Len(toHex(h))))

\* The hashes the calculations are tried on: with A0..0 they share no bit
\* (00..0), 3 bits (B0..0), 31 bits, 63 bits, 64 bits (lo 80..0) and 127
\* bits (lo 0..01).
Hash128Of(hiTop, hiMid, hiLow, loTop, loLow) ==
    [hi |-> <<hiLow, 0, hiMid, hiTop>>, lo |-> <<loLow, 0, 0, loTop>>]

HashPool ==
    { Hash128Of(40960, 0, 0, 0, 0), Hash128Of(45056, 0, 0, 0, 0),
      Hash128Of(40960, 1, 0, 0, 0), Hash128Of(40960, 0, 1, 0, 0),
      Hash128Of(40960, 0, 0, 32768, 0), Hash128Of(40960, 0, 0, 0, 1),
      Hash128Of(0, 0, 0, 0, 0) }

\* Vectors of up to MaxHashes hashes are tried.
MaxHashes == 3

HashLists == UNION {[1..n -> HashPool] : n \in 0..MaxHashes}

CalcOnly == UNCHANGED <<cvars, fs, ivars, link, ded>>

CalcInit ==
    /\ CodecIdle
    /\ fs = EmptyFs /\ IndexIdle /\ LinkIdle /\ DedupIdle /\ CalcIdle

\* --get-unique-hash-len and a listing over files with the hashes given.
CalcHashes ==
    /\ CalcIdle
    /\ \E hashes \in HashLists :
          calc' = [op |-> "hashes", hashes |-> hashes,
                   minBits |-> getMinUniqueHashBits(hashes),
                   hashLen |-> getUniqueHashHexLen(hashes),
                   rows |-> [k \in 1..Len(hashes) |->
                                rowHash(hashes[k], getUniqueHashHexLen(hashes))]]
    /\ CalcOnly

\* The elements fs::path iteration yields for an absolute path string: the
\* root directory, then the file names between the separators.
RECURSIVE NamesOf(_, _)
NamesOf(str, cur) ==
    IF str = <<>> THEN (IF cur = <<>> THEN <<>> ELSE <<cur>>)
    ELSE IF Head(str) = 47 THEN <<cur>> \o NamesOf(Tail(str), <<>>)
    ELSE NamesOf(Tail(str), Append(cur, Head(str)))

ElementsOf(str) == <<<<47>>>> \o NamesOf(Tail(str), <<>>)

\* Normalized absolute paths: /, /a, /a/b, /a/bc, /a/b/c, /ab, /b.
PathPool ==
    { <<47>>, <<47, 97>>, <<47, 97, 47, 98>>, <<47, 97, 47, 98, 99>>,
      <<47, 97, 47, 98, 47, 99>>, <<47, 97, 98>>, <<47, 98>> }

\* isPathWithin(root, path) on two paths.
CalcWithin ==
    /\ CalcIdle
    /\ \E root, path \in PathPool :
          calc' = [op |-> "within", root |-> root, path |-> path,
                   within |-> isPathWithin(ElementsOf(root), ElementsOf(path))]
    /\ CalcOnly

\* contentCounts[key]++ of printStats for the files of one directory from j
\* on, with totalSize += file.size.
RECURSIVE countFiles(_, _, _)
countFiles(files, j, acc) ==
    IF j > Len(files) THEN acc
    ELSE LET key == ContentKeyOf(files[j])
             cc == acc.contentCounts
         IN  countFiles(files, j + 1,
                 [acc EXCEPT !.totalSize = U64Add(@, files[j].size),
                             !.contentCounts =
                                 IF key \in DOMAIN cc THEN [cc EXCEPT ![key] = @ + 1]
                                 ELSE cc @@ (key :> 1)])

\* The first loop of printStats for one root, over the dirs from k on.
RECURSIVE printStatsFrom(_, _, _, _)
printStatsFrom(dirs, k, rootPath, acc) ==
    IF k > Len(dirs) THEN acc
    ELSE printStatsFrom(dirs, k + 1, rootPath,
             IF ~isPathWithin(rootPath, dirs[k].path) THEN acc
             ELSE countFiles(dirs[k].files, 1,
                      [acc EXCEPT !.dirCount = @ + 1,
                                  !.fileCount = @ + Len(dirs[k].files)]))

\* The second loop of printStats: redundantFiles and redundantSize over the
\* keys of contentCounts from k on.
RECURSIVE redundantOf(_, _, _, _)
redundantOf(contentCounts, keys, k, acc) ==
    IF k > Len(keys) THEN acc
    ELSE redundantOf(contentCounts, keys, k + 1,
             IF contentCounts[keys[k]] > 1
             THEN [redundantFiles |-> acc.redundantFiles + (contentCounts[keys[k]] - 1),
                   redundantSize |-> U64Add(acc.redundantSize,
                                            U64MulSmall(keys[k].size, contentCounts[keys[k]] - 1))]
             ELSE acc)

printStatsCounted(a) ==
    [dirCount |-> a.dirCount, fileCount |-> a.fileCount, totalSize |-> a.totalSize]
    @@ redundantOf(a.contentCounts, KeySeq(DOMAIN a.contentCounts), 1,
                   [redundantFiles |-> 0, redundantSize |-> U64Of(0)])

printStatsOf(dirs, rootPath) ==
    printStatsCounted(printStatsFrom(dirs, 1, rootPath,
        [dirCount |-> 0, fileCount |-> 0, totalSize |-> U64Of(0), contentCounts |-> <<>>]))

CalcAggregated(F, roots, dirs) ==
    calc' = [op |-> "aggregate", tree |-> F, roots |-> roots, dirs |-> dirs,
             rootFiles |-> rootFilesOf(dirs, roots),
             stats |-> [i \in 1..Len(roots) |-> printStatsOf(dirs, roots[i])]]

\* printStats and the rootFiles of printIntersectStats over the directories
\* processRoots loaded for the roots given.
CalcAggregate ==
    /\ CalcIdle
    /\ \E c \in MainContents, roots \in RootLists(MaxRoots) \ {<<>>} :
          CalcAggregated(MainFs(c), roots, processRoots(MainFs(c), roots, FALSE, FALSE).dirs)
    /\ CalcOnly

CalcNext ==
    \/ CalcHashes
    \/ CalcWithin
    \/ CalcAggregate

SpecCalc == CalcInit /\ [][CalcNext]_vars

\* The 128 bits of a hash, hi half first, most significant bit first.
BitOf(u, k) == (u[4 - ((k - 1) \div 16)] \div (2 ^ (15 - ((k - 1) % 16)))) % 2

BitsOf(h, k) == IF k <= 64 THEN BitOf(h.hi, k) ELSE BitOf(h.lo, k - 64)

\* Two hashes agree on their first n bits.
AgreeOn(a, b, n) == \A k \in 1..n : BitsOf(a, k) = BitsOf(b, k)

ValuesOf(hashes) == {hashes[k] : k \in 1..Len(hashes)}

\* ------------------------------------------------------------------------
\* C14 getMinUniqueHashBits on a vector with at least two distinct values
\*     returns b such that no two distinct hashes agree on their first b
\*     bits (hi half first) and some two distinct hashes agree on their
\*     first b - 1 bits; b is at most 128; on a vector with at most one
\*     distinct value it returns 0.
\* ------------------------------------------------------------------------
C14_MinUniqueBits ==
    calc.op = "hashes" =>
        IF Cardinality(ValuesOf(calc.hashes)) <= 1 THEN calc.minBits = 0
        ELSE /\ calc.minBits \in 1..128
             /\ \A a, b \in ValuesOf(calc.hashes) :
                   a # b => ~AgreeOn(a, b, calc.minBits)
             /\ \E a, b \in ValuesOf(calc.hashes) :
                   a # b /\ AgreeOn(a, b, calc.minBits - 1)

\* Three hashes, given unsorted, of which two differ in the last bit only.
C14_Witness ==
    /\ calc.op = "hashes"
    /\ Cardinality(ValuesOf(calc.hashes)) = 3
    /\ Hash128Less(calc.hashes[3], calc.hashes[2])
    /\ Hash128Less(calc.hashes[2], calc.hashes[1])
    /\ calc.minBits = 128
    /\ \E a, b \in ValuesOf(calc.hashes) : a # b /\ AgreeOn(a, b, 127)

\* ------------------------------------------------------------------------
\* C15 In a listing the hash column has the length getUniqueHashHexLen
\*     returns for the hashes of the loaded files, and any two listed files
\*     with distinct hashes are printed with distinct prefixes of toHex.
\* ------------------------------------------------------------------------
C15_HashColumnUnique ==
    calc.op = "hashes" =>
        \A i, j \in 1..Len(calc.hashes) :
            calc.hashes[i] # calc.hashes[j] => calc.rows[i] # calc.rows[j]

\* The same where the prefix is taken from the hash printed hi half first:
\* the order getMinUniqueHashBits counts the bits in.
C15_HiFirstColumnUnique ==
    calc.op = "hashes" =>
        \A i, j \in 1..Len(calc.hashes) :
            calc.hashes[i] # calc.hashes[j] =>
                Take(Hex16(calc.hashes[i].hi) \o Hex16(calc.hashes[i].lo), calc.hashLen)
                    # Take(Hex16(calc.hashes[j].hi) \o Hex16(calc.hashes[j].lo), calc.hashLen)

\* The sequence r is a prefix of the sequence p.
IsPrefix(r, p) == Len(r) <= Len(p) /\ SubSeq(p, 1, Len(r)) = r

\* The same on the strings of normalized absolute paths: root is /, or the
\* path itself, or the path continues with a separator after root.
StrWithin(root, path) ==
    \/ root = <<47>>
    \/ root = path
    \/ IsPrefix(root, path) /\ Len(path) > Len(root) /\ path[Len(root) + 1] = 47

\* The loaded directories (by index) that lie within root.
DirsWithin(dirs, root) == {k \in 1..Len(dirs) : IsPrefix(root, dirs[k].path)}

RECURSIVE FilesIn(_, _)
FilesIn(dirs, K) ==
    IF K = {} THEN 0
    ELSE LET k == CHOOSE x \in K : TRUE IN Len(dirs[k].files) + FilesIn(dirs, K \ {k})

\* ------------------------------------------------------------------------
\* C16 isPathWithin(R, P) is true exactly when the component sequence of R
\*     is a prefix of the component sequence of P (every root is within
\*     itself, /a/bc is not within /a/b); in printStats and
\*     printIntersectStats a loaded directory d contributes to root R if
\*     and only if isPathWithin(R, d.path).
\* ------------------------------------------------------------------------
C16_Containment ==
    /\ calc.op = "within" =>
          /\ calc.within = IsPrefix(ElementsOf(calc.root), ElementsOf(calc.path))
          /\ calc.within = StrWithin(calc.root, calc.path)
          /\ calc.root = calc.path => calc.within
    /\ calc.op = "aggregate" =>
          \A i \in 1..Len(calc.roots) :
              /\ calc.stats[i].dirCount = Cardinality(DirsWithin(calc.dirs, calc.roots[i]))
              /\ calc.stats[i].fileCount = FilesIn(calc.dirs, DirsWithin(calc.dirs, calc.roots[i]))
              /\ Len(calc.rootFiles[i]) = FilesIn(calc.dirs, DirsWithin(calc.dirs, calc.roots[i]))
              /\ \A k \in 1..Len(calc.dirs) :
                    \A n \in 1..Len(calc.dirs[k].files) :
                        (\E m \in 1..Len(calc.rootFiles[i]) :
                            calc.rootFiles[i][m] = RefsOf(calc.dirs[k])[n])
                        <=> isPathWithin(calc.roots[i], calc.dirs[k].path)

\* /a/bc is not within /a/b.
C16_Witness ==
    /\ calc.op = "within"
    /\ calc.root = <<47, 97, 47, 98>>
    /\ calc.path = <<47, 97, 47, 98, 99>>
    /\ ~calc.within

\* Two roots, one within the other: /A/s is loaded once per root and both
\* loads count for both roots, /A for the first only.
C16_WitnessNested ==
    /\ calc.op = "aggregate"
    /\ calc.roots = <<DirA, DirAS>>
    /\ calc.stats[1].dirCount = 3 /\ calc.stats[2].dirCount = 2
    /\ calc.stats[1].fileCount > calc.stats[2].fileCount
    /\ calc.stats[2].fileCount > 0

\* The run has printed the intersect statistics.
StatsPrinted ==
    /\ ded.pc \in {"done", "failed"}
    /\ "figures" \in DOMAIN ded
    /\ ded.figures # <<>>

\* The files under root i whose content occurs under another root too
\* (shared = TRUE), or under no other root (shared = FALSE).
BucketUnder(F, roots, i, shared) ==
    {p \in FilesUnder(F, <<roots[i]>>) :
        shared = (\E j \in 1..Len(roots) :
                     /\ j # i
                     /\ \E q \in FilesUnder(F, <<roots[j]>>) : ContentAt(F, q) = ContentAt(F, p))}

\* The sum of the per-root figures of one bucket, from root i on.
RECURSIVE PerRootSum(_, _, _)
PerRootSum(fig, i, shared) ==
    IF i > Len(fig.perRoot) THEN NoBucket
    ELSE [files |-> (IF shared THEN fig.perRoot[i].shared.files ELSE fig.perRoot[i].unique.files)
                    + PerRootSum(fig, i + 1, shared).files,
          bytes |-> U64Add(IF shared THEN fig.perRoot[i].shared.bytes
                           ELSE fig.perRoot[i].unique.bytes,
                           PerRootSum(fig, i + 1, shared).bytes)]

\* What C17 asks of the figures printed for the roots over file system F.
C17_Figures(F, roots, fig) ==
    /\ \A i \in 1..Len(roots) :
          /\ fig.perRoot[i].unique.files = Cardinality(BucketUnder(F, roots, i, FALSE))
          /\ fig.perRoot[i].unique.bytes = U64Of(SizeSum(F, BucketUnder(F, roots, i, FALSE)))
          /\ fig.perRoot[i].shared.files = Cardinality(BucketUnder(F, roots, i, TRUE))
          /\ fig.perRoot[i].shared.bytes = U64Of(SizeSum(F, BucketUnder(F, roots, i, TRUE)))
          /\ fig.perRoot[i].unique.files + fig.perRoot[i].shared.files
                = Cardinality(FilesUnder(F, <<roots[i]>>))
    /\ fig.total.unique = PerRootSum(fig, 1, FALSE)
    /\ fig.total.shared = PerRootSum(fig, 1, TRUE)

\* ------------------------------------------------------------------------
\* C17 Intersect statistics for N >= 2 roots: for every root each file
\*     under it is counted exactly once, as shared if its ContentKey occurs
\*     in at least two roots and as unique if it occurs in this root only,
\*     with bytes = count x size; unique files + shared files is the number
\*     of files under the root; the totals are the sums of the per-root
\*     figures.
\* ------------------------------------------------------------------------
C17_IntersectStats ==
    StatsPrinted => C17_Figures(ded.interBefore, ded.roots, ded.figures)

\* No root of the run lies within another (or is given twice).
RootsApart ==
    \A i, j \in 1..Len(ded.roots) :
        i # j => ~isPathWithin(ded.roots[i], ded.roots[j])

\* The same for runs whose roots lie apart.
C17_ApartIntersectStats ==
    (StatsPrinted /\ RootsApart) => C17_Figures(ded.interBefore, ded.roots, ded.figures)

\* A run without --dry-run has come to the extraction it was asked for.
Extracted ==
    /\ ded.pc \in {"done", "failed"}
    /\ "copyKind" \in DOMAIN ded
    /\ ded.copyKind # "skipped"
    /\ ded.opts.extract # "none"
    /\ ~ded.opts.dryRun

\* The source root of the extraction and the other root.
SrcRoot == IF ded.opts.extract = "a" THEN ded.roots[1] ELSE ded.roots[2]

OtherRoot == IF ded.opts.extract = "a" THEN ded.roots[2] ELSE ded.roots[1]

\* The files under the source root whose content is not under the other
\* root, in the trees as they were indexed.
OnlyInSrc(F) ==
    {p \in FilesUnder(F, <<SrcRoot>>) :
        \A q \in FilesUnder(F, <<OtherRoot>>) : ContentAt(F, q) # ContentAt(F, p)}

\* destRoot joined with the path of p relative to the source root.
DestOf(p) ==
    PathOf(ded.opts.dest \o SubSeq(p.dir, Len(SrcRoot) + 1, Len(p.dir)), p.name)

\* ------------------------------------------------------------------------
\* C18 Extract-unique, two roots, not a dry run: if the destination root
\*     exists the operation fails and copies nothing; otherwise (nothing
\*     refused by the system, nobody else writing into the destination) it
\*     copies exactly the files of the source root whose ContentKey does
\*     not occur in the other root, each to destRoot joined with its path
\*     relative to the source root; an existing destination file is never
\*     overwritten: the operation fails on it.
\* ------------------------------------------------------------------------
C18_ExtractUnique ==
    Extracted =>
        /\ DirExists(ded.copyBefore, ded.opts.dest) =>
              ded.pc = "failed" /\ fs = ded.copyBefore
        /\ (~DirExists(ded.copyBefore, ded.opts.dest) /\ ded.bad = NoRefusal /\ LinkKeptNames
            /\ ded.stray = {}) =>
              /\ ded.pc = "done"
              /\ DOMAIN fs.x.files = {DestOf(p) : p \in OnlyInSrc(ded.interBefore)}
              /\ \A p \in OnlyInSrc(ded.interBefore) :
                    fs.x.files[DestOf(p)] = ContentAt(ded.interBefore, p)
              /\ \A p \in OnlyInSrc(ded.interBefore) : DestOf(p).dir \in fs.x.dirs
              /\ ded.opts.dest \in fs.x.dirs
              /\ fs.n = ded.copyBefore.n /\ fs.i = ded.copyBefore.i /\ fs.s = ded.copyBefore.s
        /\ (~DirExists(ded.copyBefore, ded.opts.dest) /\ LinkKeptNames) =>
              \A q \in ded.stray :
                  /\ q \in DOMAIN fs.x.files /\ fs.x.files[q] = 0
                  /\ (\E p \in OnlyInSrc(ded.interBefore) : DestOf(p) = q) => ded.pc = "failed"

\* Two files copied, one of them from a subdirectory of the source root.
C18_Witness ==
    /\ Extracted
    /\ ded.pc = "done"
    /\ Cardinality(DOMAIN fs.x.files) = 2
    /\ \E p \in OnlyInSrc(ded.interBefore) : Len(DestOf(p).dir) = 2 /\ DestOf(p) \in DOMAIN fs.x.files

\* The destination root exists: nothing copied.
C18_WitnessExists ==
    /\ Extracted
    /\ DirExists(ded.copyBefore, ded.opts.dest)
    /\ OnlyInSrc(ded.interBefore) # {}
    /\ ded.pc = "failed"

\* A file already at a destination path is left as it is.
C18_WitnessStray ==
    /\ Extracted
    /\ ded.stray # {}
    /\ \E p \in OnlyInSrc(ded.interBefore) : DestOf(p) \in ded.stray
    /\ ded.pc = "failed"

\* The messages of the two checks main makes inside its --intersect branch.
LateUsageErrors ==
    { "--intersect requires at least two directories.",
      "--list-a/--list-b/--list-both/--extract-a/--extract-b require exactly two directories." }

\* ------------------------------------------------------------------------
\* C19 Every usage error is reported before any I/O: when it is raised the
\*     invocation has written no sidecar and has deleted, copied or
\*     hard-linked no file.
\* ------------------------------------------------------------------------
C19_UsageBeforeIO ==
    ded.pc = "usage" => fs = ded.start

\* The same for the usage errors raised before processRoots.
C19_EarlyUsageBeforeIO ==
    (ded.pc = "usage" /\ ded.err \notin LateUsageErrors) => fs = ded.start

\* Every usage error raised after processRoots is one of the two of the
\* --intersect branch.
C19_LateUsageOnly ==
    (ded.pc = "usage" /\ fs # ded.start) =>
        /\ ded.err \in LateUsageErrors
        /\ ded.opts.intersect

\* hardlinkCopies ran without --dry-run: ded.log holds its
\* replaceWithHardlink calls in order.
LinkRan == "log" \in DOMAIN ded /\ ~ded.opts.dryRun

\* printIntersectStats ran without --dry-run.
IntersectRan == "removeKind" \in DOMAIN ded /\ ~ded.opts.dryRun

\* A failed replaceWithHardlink is the last one of the run, and the run
\* does not end well.
C20_LinkAborts ==
    LinkRan =>
        \A k \in 1..Len(ded.log) :
            ~ded.log[k].ok => (k = Len(ded.log) /\ ded.pc # "done")

\* A failed remove ends the run with an error: nothing is re-indexed or
\* copied after it, the files removed before it stay removed.
C20_RemoveAborts ==
    (IntersectRan /\ ded.removeKind = "error") =>
        /\ ded.pc = "failed"
        /\ ded.copyKind = "skipped"
        /\ fs = ded.copyBefore
        /\ DeletedSince(ded.interBefore, fs) \subseteq ded.removed
        /\ Cardinality(ded.removed \ DeletedSince(ded.interBefore, fs)) = 1

\* A failed copy ends the run with an error: the destination holds the
\* copies made before it (and what others put there), and no more.
C20_CopyAborts ==
    (IntersectRan /\ ded.copyKind = "error" /\ ~DirExists(ded.copyBefore, ded.opts.dest)) =>
        /\ ded.pc = "failed"
        /\ DOMAIN fs.x.files
              = {ded.copied[k].target : k \in 1..Len(ded.copied)} \cup ded.stray

\* ------------------------------------------------------------------------
\* C20 In copy-extract, remove-copies and hardlink-copies the first failure
\*     of a data-touching step (copy, remove, hard-link creation or rename)
\*     aborts the operation with an error: no further file is mutated after
\*     it, the invocation does not end successfully, and the mutations
\*     already performed are kept.
\* ------------------------------------------------------------------------
C20_FirstFailureAborts ==
    /\ C20_LinkAborts
    /\ C20_RemoveAborts
    /\ C20_CopyAborts

\* The same for remove-copies and copy-extract alone.
C20_RemoveCopyAbort ==
    /\ C20_RemoveAborts
    /\ C20_CopyAborts

\* ------------------------------------------------------------------------
\* C21 Forward compatibility of the reader: a sidecar whose TOC entries are
\*     longer than 16 bytes and whose file entries are longer than 48 bytes,
\*     with any bytes after the first 16 / 48 of an entry, reads as the
\*     sidecar with entries of 16 / 48 bytes for the same list does; and
\*     the sidecar buildDirDb writes declares tocEntrySize 16 and
\*     fileEntrySize 48.
\* ------------------------------------------------------------------------
FilesHeaderOf(d) == 40 + U64Nat(readU64Le(d, 24)) * U64Nat(readU64Le(d, 32))

C21_ForwardCompatible ==
    /\ (cpc = "read" /\ corig = "other") =>
          LET minimal == readDirDb(EncodeDirDbPadded(ret, <<>>, <<>>)) IN
          /\ minimal.kind = "ok" /\ res.kind = "ok"
          /\ res.files = minimal.files /\ res.toc = minimal.toc
          /\ res.files = ret
    /\ (cpc = "read" /\ corig = "foreign") =>
          /\ res.kind = "ok"
          /\ res.files = readDirDb(ForeignImage(<<>>, <<>>)).files
    /\ (cpc \in {"image", "read"} /\ corig = "built") =>
          /\ readU64Le(img, 32) = U64Of(16)
          /\ readU64Le(img, FilesHeaderOf(img) + 16) = U64Of(48)

\* Three files under two TOC entries of 40 bytes each, file entries of 56
\* bytes, read back.
C21_Witness ==
    /\ cpc = "read" /\ corig = "other" /\ res.kind = "ok"
    /\ readU64Le(img, 32) = U64Of(40)
    /\ readU64Le(img, FilesHeaderOf(img) + 16) = U64Of(56)
    /\ Len(res.files) = 3 /\ Len(res.toc) = 2

\* ------------------------------------------------------------------------
\* C22 --readbench excludes every other operation: a run given --readbench
\*     together with remove-dirdb, intersect, update-dirdb, new-dirdb, a
\*     list or extract option, remove-copies or hardlink-copies ends in a
\*     usage error with the tree as it was; and a run given --readbench
\*     alone leaves every sidecar as it was.
\* ------------------------------------------------------------------------
MainEnded == ded.pc \in {"usage", "done", "failed"} /\ "opts" \in DOMAIN ded

\* Two states of the tree with the same files, inodes, sidecars and
\* destination.
SameSidecar(a, b) == IF a = NoFile THEN b = NoFile ELSE b # NoFile /\ a = b

SameTree(F, G) ==
    /\ F.n = G.n /\ F.i = G.i /\ F.x = G.x
    /\ \A D \in DirSet : SameSidecar(F.s[D], G.s[D])

C22_ReadbenchExclusive ==
    (MainEnded /\ ded.opts.readbench) =>
        /\ SameTree(fs, ded.start)
        /\ otherOps(ded.opts) => ded.pc = "usage"

\* The same for the runs without --remove-dirdb.
C22_ReadbenchExclusiveOfLoading ==
    (MainEnded /\ ded.opts.readbench /\ ~ded.opts.removeDirdb) =>
        /\ SameTree(fs, ded.start)
        /\ otherOps(ded.opts) => ded.pc = "usage"

\* --readbench with --intersect --remove-copies is refused before any file
\* is touched.
C22_WitnessRefused ==
    /\ MainEnded /\ ded.pc = "usage"
    /\ ded.opts.readbench /\ ded.opts.removeCopies /\ ded.opts.intersect /\ ~ded.opts.dryRun
    /\ \E D \in DirSet : fs.s[D] # NoFile

\* ------------------------------------------------------------------------
\* C23 Per-root statistics for any list of roots: for every root, files is
\*     the number of regular files in the directories within the root, each
\*     file counted once; total-size is the sum of their sizes;
\*     redundantFiles is files minus the number of distinct contents among
\*     them; redundantSize is the sum over the contents of (count - 1)
\*     times the size.
\* ------------------------------------------------------------------------
ContentsOf(F, S) == {ContentAt(F, p) : p \in S}

RECURSIVE RedundantSum(_, _, _)
RedundantSum(F, S, C) ==
    IF C = {} THEN 0
    ELSE LET c == CHOOSE x \in C : TRUE
         IN  (Cardinality({p \in S : ContentAt(F, p) = c}) - 1) * ContentSize(c)
             + RedundantSum(F, S, C \ {c})

C23_RootStats(F, root, st) ==
    LET S == FilesUnder(F, <<root>>) IN
    /\ st.fileCount = Cardinality(S)
    /\ st.totalSize = U64Of(SizeSum(F, S))
    /\ st.redundantFiles = Cardinality(S) - Cardinality(ContentsOf(F, S))
    /\ st.redundantSize = U64Of(RedundantSum(F, S, ContentsOf(F, S)))

C23_PerRootStats ==
    calc.op = "aggregate" =>
        \A i \in 1..Len(calc.roots) : C23_RootStats(calc.tree, calc.roots[i], calc.stats[i])

\* The same for lists of roots none of which lies within another.
C23_ApartPerRootStats ==
    (calc.op = "aggregate" /\ \A i, j \in 1..Len(calc.roots) :
                                 i # j => ~isPathWithin(calc.roots[i], calc.roots[j])) =>
        \A i \in 1..Len(calc.roots) : C23_RootStats(calc.tree, calc.roots[i], calc.stats[i])

\* Roots /B and /A, each with two files of one content of one byte.
C23_WitnessApart ==
    /\ calc.op = "aggregate" /\ calc.roots = <<DirB, DirA>>
    /\ calc.stats[2].dirCount = 2
    /\ calc.stats[2].fileCount = 2 /\ calc.stats[2].redundantFiles = 1
    /\ calc.stats[2].redundantSize = U64Of(1)
    /\ calc.stats[1].fileCount = 2 /\ calc.stats[1].redundantFiles = 1
    /\ calc.stats[1].totalSize = U64Of(2)

\* ------------------------------------------------------------------------
\* C24 Indexing an unchanged directory again changes nothing: a
\*     force-create run after a force-create run returns the file list of
\*     the first and leaves the sidecar bytes the first wrote; an update
\*     run after a read run, the directory unchanged since the sidecar the
\*     read loaded was written, returns the file list the read returned
\*     (names, sizes, hashes, inodes, dates, link counts, in that order).
\* ------------------------------------------------------------------------
C24_Idempotent ==
    (AfterRun /\ nrun >= 2 /\ prev.kind = "ok" /\ last.quiet = {}) =>
        /\ (prev.mode = "force" /\ last.mode = "force") =>
              /\ last.data.files = prev.data.files
              /\ last.existed
              /\ SameSidecar(fs.s[DirA], last.before)
        /\ (prev.mode = "read" /\ last.mode = "update" /\ prev.since = {}) =>
              last.data.files = prev.data.files

\* A read run that loaded the sidecar of an earlier run, then an update run:
\* the same list of two files or more, nothing hashed.
C24_Witness ==
    /\ AfterRun /\ nrun = 3 /\ prev.kind = "ok" /\ last.quiet = {}
    /\ prev.mode = "read" /\ prev.existed /\ prev.since = {} /\ last.mode = "update"
    /\ Len(last.data.files) >= 2
    /\ last.data.files = prev.data.files
    /\ last.hashed = {}

\* Two force-create runs in a row on a directory of two files or more.
C24_WitnessForce ==
    /\ AfterRun /\ prev.kind = "ok" /\ last.quiet = {}
    /\ prev.mode = "force" /\ last.mode = "force"
    /\ Len(last.data.files) >= 2
    /\ fs.s[DirA] = last.before

\* ------------------------------------------------------------------------
\* C25 Same-filename policy, the digest taken as injective. With the policy
\*     on two files are grouped under one ContentKey exactly if they have
\*     the same size, the same content hash and the same leaf name, and
\*     remove-copies and hardlink-copies delete or link a file only
\*     against a file of its own leaf name; with the policy off two files
\*     are grouped exactly if they have the same size and content hash,
\*     whatever their names.
\* ------------------------------------------------------------------------
\* The tree the directories were loaded from.
DedupTree == IF ded.pc = "loaded" THEN fs ELSE ded.before

SameContent(F, p, q) ==
    /\ SizeAt(F, p) = SizeAt(F, q)
    /\ HashOf(ContentAt(F, p)) = HashOf(ContentAt(F, q))

C25_Grouping ==
    \A f, g \in LoadedRefs :
        (ContentKeyOf(f) = ContentKeyOf(g)) <=>
            /\ SameContent(DedupTree, f.path, g.path)
            /\ ded.sameFilename => f.path.name = g.path.name

C25_WitnessOff ==
    /\ ded.pc = "removed" /\ ~ded.sameFilename /\ ded.roots = <<DirA, DirB>>
    /\ PathOf(DirB, NameM) \in ded.removed
    /\ ~Exists(fs, PathOf(DirB, NameM))

\* Policy on: /B/m is not linked to /B/a, of the same content, while /A/a is.
C25_WitnessLink ==
    /\ ded.pc = "linked" /\ ded.sameFilename
    /\ \A k \in 1..4 : Exists(ded.before, DedupSlots[k])
    /\ SameContent(ded.before, PathOf(DirB, NameA), PathOf(DirB, NameM))
    /\ \E k \in 1..Len(ded.log) : ded.log[k].ok /\ ded.log[k].target = PathOf(DirA, NameA)
    /\ fs.n[PathOf(DirB, NameM)] # fs.n[PathOf(DirB, NameA)]
    /\ fs.n[PathOf(DirA, NameA)] = fs.n[PathOf(DirB, NameA)]

\* ------------------------------------------------------------------------
\* C26 remove-copies loses no content, for any list of roots: every
\*     ContentKey that had a file before a remove-copies run without
\*     dry-run has a file that exists, with the bytes it had, after it.
\* ------------------------------------------------------------------------
KeptRefs == {g \in LoadedRefs : Exists(fs, g.path) /\ fs.n[g.path] = ded.before.n[g.path]}

C26_Kept == \A f \in LoadedRefs : \E g \in KeptRefs : ContentKeyOf(g) = ContentKeyOf(f)

C26_NoContentLost == ded.pc = "removed" => C26_Kept

\* The same for lists of roots none of which lies within another.
C26_ApartNoContentLost ==
    (ded.pc = "removed" /\ \A i, j \in 1..Len(ded.roots) :
                              i # j => ~isPathWithin(ded.roots[i], ded.roots[j])) => C26_Kept

\* Roots /A and /B: both files of /B deleted, their content kept in /A.
C26_WitnessApart ==
    /\ ded.pc = "removed" /\ ded.roots = <<DirA, DirB>> /\ ~ded.sameFilename
    /\ ded.removed = {PathOf(DirB, NameA), PathOf(DirB, NameM)}
    /\ ~Exists(fs, PathOf(DirB, NameA)) /\ ~Exists(fs, PathOf(DirB, NameM))
    /\ C26_Kept

\* ------------------------------------------------------------------------
\* C27 Temporary-file discipline of replaceWithHardlink(S, T): the
\*     temporary path is the first of T.treeop_link_tmp,
\*     T.treeop_link_tmp1 .. T.treeop_link_tmp99 that does not exist; the
\*     call fails for want of a temporary path, nothing created, exactly
\*     if all 100 exist; and after every failing return the temporary link
\*     the call created is gone.
\* ------------------------------------------------------------------------
FreeTemps(F, T) == {i \in 0..(kTempTries - 1) : ~Exists(F, TempPath(T, i))}

C27_FirstFree ==
    FreeTemps(link.before, link.target) # {} =>
        \E i \in FreeTemps(link.before, link.target) :
            /\ link.temp = TempPath(link.target, i)
            /\ \A j \in 0..(i - 1) : Exists(link.before, TempPath(link.target, j))

C27_NoneFree ==
    /\ (link.err = "No temporary path available") <=> (FreeTemps(link.before, link.target) = {})
    /\ FreeTemps(link.before, link.target) = {} => (~link.ret /\ fs = link.before)

C27_TempGone ==
    (~link.ret /\ ~Exists(link.before, link.temp)) => ~Exists(fs, link.temp)

C27_TempDiscipline ==
    link.pc = "done" => (C27_FirstFree /\ C27_NoneFree /\ C27_TempGone)

\* The same where the system does not refuse to remove the temporary link.
C27_TempDisciplineCleanupDone ==
    (link.pc = "done" /\ "cleanup" \notin link.refused) =>
        (C27_FirstFree /\ C27_NoneFree /\ C27_TempGone)

\* 99 names taken: the call uses T.treeop_link_tmp99, fails to put it in
\* place of T and removes it again.
C27_WitnessLast ==
    /\ link.pc = "done" /\ ~link.ret /\ link.err = "Failed to replace"
    /\ link.temp = TempPath(link.target, kTempTries - 1)
    /\ ~Exists(link.before, link.temp) /\ ~Exists(fs, link.temp)

\* All 100 names taken: the call fails and changes nothing.
C27_WitnessNone ==
    /\ link.pc = "done" /\ ~link.ret /\ link.err = "No temporary path available"
    /\ FreeTemps(link.before, link.target) = {} /\ fs = link.before

\* ------------------------------------------------------------------------
\* C28 The (size, name) order holds after every successful read: the files
\*     of a DirDbData that readDirDb returned are strictly ordered by size
\*     ascending, then name ascending; a sidecar whose entries are in
\*     another order is not accepted.
\* ------------------------------------------------------------------------
StrictlyOrdered(files) ==
    \A i, j \in 1..Len(files) :
        i < j => \/ U64Lt(files[i].size, files[j].size)
                 \/ files[i].size = files[j].size /\ StrLess(files[i].path, files[j].path)

C28_ReadOrdered ==
    (cpc = "read" /\ res.kind = "ok") => StrictlyOrdered(res.files)

\* The same for the sidecars buildDirDb wrote.
C28_BuiltReadOrdered ==
    (cpc = "read" /\ res.kind = "ok" /\ corig = "built") => StrictlyOrdered(res.files)

\* Three files of two sizes, written by buildDirDb and read back in order.
C28_WitnessBuilt ==
    /\ cpc = "read" /\ res.kind = "ok" /\ corig = "built"
    /\ Len(res.files) = 3 /\ Len(res.toc) = 2
    /\ StrictlyOrdered(res.files)

\* ------------------------------------------------------------------------
\* C29 The overrun checks hold for every 64-bit header value, the
\*     arithmetic being modulo 2^64: whatever tocEntrySize, fileEntrySize,
\*     stringsSize and the length prefix of a string are, readDirDb raises
\*     an error when the declared entry, STRINGS blob or string reaches
\*     past the end of the data; it accepts no such sidecar, never moves
\*     its read position backwards and never reads outside the buffer.
\* ------------------------------------------------------------------------
C29_OverrunChecks ==
    cpc = "read" =>
        /\ res.kind \in {"ok", "error"}
        /\ res.kind = "ok" => (~res.back /\ WellFormedImage(img))

\* A sidecar whose tocEntrySize of 40 reaches past the end of the data is
\* refused by the check of the TOC loop.
C29_WitnessRefused ==
    /\ cpc = "read" /\ corig = "damaged"
    /\ Len(img) >= 40 /\ Len(img) < 80
    /\ readU64Le(img, 32) = U64Of(40) /\ readU64Le(img, 24) = U64Of(1)
    /\ res = Fail("Unexpected end of TOC")

\* ------------------------------------------------------------------------
\* C30 Re-indexing after mutation: when remove-copies or hardlink-copies
\*     returns from a run without dry-run, every directory in which it
\*     deleted or replaced a file, and the directory of every link target,
\*     has, if it had a sidecar, a sidecar that lists the regular files the
\*     directory holds now, each with its current inode and link count, and
\*     no other; a directory that had no sidecar has none.
\* ------------------------------------------------------------------------
\* The directories with a name that is gone, new, or leads to another inode.
\* The directories in which a name was deleted, created or bound to another
\* inode between two file systems.
MutatedDirs(before, after) ==
    {D \in DirSet :
        \E p \in DOMAIN before.n \cup DOMAIN after.n :
            /\ p.dir = D
            /\ \/ ~Exists(before, p) \/ ~Exists(after, p)
               \/ before.n[p] # after.n[p]}

\* What the sidecar of directory D lists: name, inode, link count and size
\* of every entry readDirDb returns (none if the sidecar does not load).
ListedIn(F, D) ==
    LET r == readDirDb(F.s[D]) IN
    IF r.kind # "ok" THEN {}
    ELSE {[name |-> r.files[k].path, ino |-> r.files[k].inode, nlink |-> r.files[k].numLinks,
           size |-> r.files[k].size] : k \in 1..Len(r.files)}

\* What directory D holds: the same four fields of every regular file that
\* is not the sidecar, as stat reports them.
HeldIn(F, D) ==
    {[name |-> e.name, ino |-> U64Of(e.ino), nlink |-> U64Of(e.nlink), size |-> U64Of(e.size)] :
        e \in RegularEntries(F, D)}

\* Every directory of dirs that had a sidecar has one that loads and agrees
\* with the directory; no directory gained a sidecar.
C30_Reindexed(before, after, dirs) ==
    /\ \A D \in dirs :
          before.s[D] # NoFile =>
              /\ after.s[D] # NoFile
              /\ readDirDb(after.s[D]).kind = "ok"
              /\ ListedIn(after, D) = HeldIn(after, D)
    /\ \A D \in DirSet : before.s[D] = NoFile => after.s[D] = NoFile

\* The directories of the files the replaced names were linked to
\* (oldestPath.parent_path(), treeop.cpp:1037).
LinkTargetDirs == {ded.log[k].source.dir : k \in {j \in 1..Len(ded.log) : ded.log[j].ok}}

\* removeCopyFiles of a run without --dry-run returned (it did not throw).
RemoveReturned ==
    /\ ded.pc \in {"done", "failed"} /\ "interBefore" \in DOMAIN ded
    /\ ded.opts.removeCopies /\ ~ded.opts.dryRun /\ ded.removeKind = "ok"

\* ------------------------------------------------------------------------
\* C30 When remove-copies or hardlink-copies without --dry-run has returned,
\*     every directory in which it deleted or replaced a file, and for
\*     hardlink-copies the directory of each link target, that had a
\*     sidecar has a sidecar that lists no deleted file and records the
\*     current inode and link count of every file of the directory; a
\*     directory without a sidecar got none.
\* ------------------------------------------------------------------------
C30_ReindexAfterMutation ==
    /\ (ded.pc = "linked" /\ ~ded.opts.dryRun) =>
          C30_Reindexed(ded.linkBefore, fs, MutatedDirs(ded.linkBefore, fs) \cup LinkTargetDirs)
    /\ RemoveReturned =>
          C30_Reindexed(ded.interBefore, ded.copyBefore,
                        MutatedDirs(ded.interBefore, ded.copyBefore))

\* C30 where every replaceWithHardlink that failed left its target in place:
\* the same statement for the runs in which hardlink-copies lost no name.
C30_ReindexAfterCompletedMutation ==
    /\ (ded.pc = "linked" /\ ~ded.opts.dryRun
          /\ \A p \in DOMAIN ded.linkBefore.n : Exists(fs, p)) =>
          C30_Reindexed(ded.linkBefore, fs, MutatedDirs(ded.linkBefore, fs) \cup LinkTargetDirs)
    /\ RemoveReturned =>
          C30_Reindexed(ded.interBefore, ded.copyBefore,
                        MutatedDirs(ded.interBefore, ded.copyBefore))

\* hardlink-copies removed /A/a in a replaceWithHardlink whose renames were
\* refused: the sidecar of /A still lists the name.
C30_WitnessStale ==
    /\ ded.pc = "linked" /\ ~ded.opts.dryRun
    /\ Exists(ded.linkBefore, PathOf(DirA, NameA)) /\ ~Exists(fs, PathOf(DirA, NameA))
    /\ \E x \in ListedIn(fs, DirA) : x.name = NameA

\* remove-copies deleted /B/a and /B/m; the sidecar of /B, which listed both,
\* lists no file now, the sidecar of /A is as it was.
C30_WitnessRemove ==
    /\ RemoveReturned /\ ded.roots = <<DirA, DirB>>
    /\ ded.removed = {PathOf(DirB, NameA), PathOf(DirB, NameM)}
    /\ Cardinality(ListedIn(ded.interBefore, DirB)) = 2
    /\ ded.copyBefore.s[DirB] # NoFile /\ ListedIn(ded.copyBefore, DirB) = {}
    /\ readDirDb(ded.copyBefore.s[DirB]).kind = "ok"
    /\ ded.copyBefore.s[DirA] = ded.interBefore.s[DirA]

\* hardlink-copies replaced /A/a by a link to /B/a: both sidecars list the
\* shared inode with its new link count.
C30_WitnessLink ==
    /\ ded.pc = "linked" /\ ~ded.opts.dryRun
    /\ \E k \in 1..Len(ded.log) :
          /\ ded.log[k].ok
          /\ ded.log[k].source = PathOf(DirB, NameA) /\ ded.log[k].target = PathOf(DirA, NameA)
    /\ fs.n[PathOf(DirA, NameA)] = fs.n[PathOf(DirB, NameA)]
    /\ \E x \in ListedIn(fs, DirA), y \in ListedIn(fs, DirB) :
          /\ x.name = NameA /\ y.name = NameA /\ x.ino = y.ino
          /\ x.nlink = y.nlink /\ U64Nat(x.nlink) >= 2
    /\ ListedIn(fs, DirA) # ListedIn(ded.linkBefore, DirA)

====
